---------------------------- MODULE Spec2Model ----------------------------
(***************************************************************************)
(* Model of ai_aknf_filter.py (Gemini AKNF Roms Filter, version 1.0.15):   *)
(* the compress -> dispatch -> reconstruct pipeline over DAT files.        *)
(*                                                                         *)
(* Text is modelled by TLA+ strings (TLC evaluates Len, SubSeq and \o on   *)
(* them).  An XML text is a record [decl, elem, tail]: whether it starts   *)
(* with an XML declaration, the element it serialises, and the characters  *)
(* that follow the element's end tag (ElementTree serialises an element    *)
(* together with its tail).                                                *)
(***************************************************************************)
EXTENDS Integers, Sequences, FiniteSets, TLC

VARIABLES
    \* extract_console_details, on its own
    raw_name,           \* the argument
    details,            \* <<>> before the call, <<maker, name>> after it
    \* parse_and_compress_dat, on its own
    input_doc,          \* the parsed input document (or how its parse failed)
    filepath_stem,      \* Path(filepath).stem
    parsed,             \* NoneObj before the call, its six results after it
    \* the module's globals
    LXML_AVAILABLE,     \* whether lxml was imported (line 22) or not (line 26)
    \* reconstruct_filtered_dat, on its own
    original_header,        \* the header text of the Catalog Store
    games_data,             \* the Catalog Store: name -> fragment
    runs,                   \* the calls made: <<[ai_response_xml, result], ...>>
    \* the header mutation of reconstruct_filtered_dat, on its own
    header_input,       \* the header text it is first given
    mutations,          \* the header text after each application
    \* call_gemini_api, on its own
    api_pc,             \* where the call is: start, request, stop, evaluate, returned
    indicator,          \* the ProcessingIndicator: idle, running, stopped
    api_response,       \* what model.generate_content did
    requests,           \* the number of requests sent to the oracle
    api_return,         \* the value returned (once api_pc = "returned")
    api_console,        \* the lines printed
    invalid_ai_response_start,  \* the content of invalid_ai_response_start.xml
    \* the batch: the main program from line 643 on
    RICH_AVAILABLE,     \* whether rich was imported (line 47) or not (line 49)
    files_to_process,   \* the candidate files, in the order of the loop
    main_pc,            \* start, loop, summary, done; crashed: an uncaught exception
    success_count,
    fail_count,
    processed,          \* what process_dat_file did for each file so far
    output_files,       \* the output files on disk: path |-> content
    writes,             \* every opening of an output file for writing, in order
    failed_ai_response_games,   \* the content of failed_ai_response_games.xml
    \* sanitize_filename, on its own
    unsafe_filename,    \* the argument
    safe_filename,      \* None before the call, the returned name after it
    \* the directory scan of main (--all) and the output names
    directory,          \* the .dat files of the script's directory
    scans,              \* files_to_process (names) of each run so far
    scan_pc,            \* scan, process, done
    \* the ProcessingIndicator and its thread during call_gemini_api
    caller,             \* where the main thread is in call_gemini_api
    animator,           \* where the thread running _animate is
    stop_event,         \* threading.Event: set or not
    lock,               \* the thread holding the lock, or None
    stdout,             \* what was written to sys.stdout, in order
    call_outcome        \* what model.generate_content did: None, response, raise

detailsVars == <<raw_name, details>>
parseVars == <<input_doc, filepath_stem, parsed>>
reconVars == <<original_header, games_data, runs>>
headerVars == <<header_input, mutations>>
apiVars == <<api_pc, indicator, api_response, requests, api_return, api_console,
             invalid_ai_response_start>>
sanitizeVars == <<unsafe_filename, safe_filename>>
scanVars == <<directory, scans, scan_pc>>
threadVars == <<caller, animator, stop_event, lock, stdout, call_outcome>>
batchVars == <<RICH_AVAILABLE, files_to_process, main_pc, success_count, fail_count,
               processed, output_files, writes, failed_ai_response_games>>
vars == <<raw_name, details, input_doc, filepath_stem, parsed, LXML_AVAILABLE,
          original_header, games_data, runs, header_input, mutations, api_pc, indicator,
          api_response, requests, api_return, api_console, invalid_ai_response_start,
          RICH_AVAILABLE, files_to_process, main_pc, success_count, fail_count,
          processed, output_files, writes, failed_ai_response_games,
          unsafe_filename, safe_filename, directory, scans, scan_pc,
          caller, animator, stop_event, lock, stdout, call_outcome>>

(***************************************************************************)
(* Bounds of the model.                                                    *)
(***************************************************************************)
MaxRawLen == 5          \* longest enumerated header name
MaxGames == 3           \* most <game> elements in an input document
MaxSelected == 3        \* most <game> elements in an oracle response
MaxChildren == 3        \* most children of an enumerated header

(***************************************************************************)
(* Python values and string helpers.                                       *)
(***************************************************************************)
\* Python's None, where a string is expected: no enumerated text equals it.
None == "<None>"

\* Python's None, where an element, a dict or a document is expected.
NoneObj == [none |-> TRUE]

\* The characters matched by \s and removed by str.strip().
Whitespace == {" ", "\n", "\t"}

Ch(s, i) == SubSeq(s, i, i)

Backquote == SubSeq("`'", 1, 1)

RECURSIVE lstrip(_)
lstrip(s) == IF Len(s) > 0 /\ Ch(s, 1) \in Whitespace THEN lstrip(Tail(s)) ELSE s

RECURSIVE rstrip(_)
rstrip(s) ==
    IF Len(s) > 0 /\ Ch(s, Len(s)) \in Whitespace
    THEN rstrip(SubSeq(s, 1, Len(s) - 1))
    ELSE s

strip(s) == rstrip(lstrip(s))

\* The first index at or after i that holds no whitespace (Len(s) + 1 if none).
RECURSIVE SkipSpace(_, _)
SkipSpace(s, i) ==
    IF i <= Len(s) /\ Ch(s, i) \in Whitespace THEN SkipSpace(s, i + 1) ELSE i

\* str.find: the first index where sub occurs in s, 0 if it does not.
find(s, sub) ==
    LET hits == {i \in 1..(Len(s) - Len(sub) + 1) : SubSeq(s, i, i + Len(sub) - 1) = sub}
    IN  IF hits = {} THEN 0 ELSE CHOOSE i \in hits : \A j \in hits : i <= j

Contains(s, sub) == find(s, sub) # 0

startswith(s, prefix) == Len(s) >= Len(prefix) /\ SubSeq(s, 1, Len(prefix)) = prefix

\* All strings over the alphabet of length at most n.
RECURSIVE StringsUpTo(_, _)
StringsUpTo(alphabet, n) ==
    IF n = 0 THEN {""}
    ELSE LET shorter == StringsUpTo(alphabet, n - 1)
         IN  shorter \cup {s \o c : s \in shorter, c \in alphabet}

(***************************************************************************)
(* extract_console_details                                                 *)
(***************************************************************************)
Sconosciuto == "Sconosciuto"
NomeConsoleSconosciuto == "Nome Console Sconosciuto"
ProduttoreSconosciuto == "Produttore Sconosciuto"

\* re.sub(r'\s*\([^)]*?\)\s*', ' ', s): each leftmost match (optional
\* whitespace, "(", the shortest text without ")", ")", optional whitespace)
\* becomes one space; a text without "(" has no match.
FirstClose(s, j) ==
    LET closes == {k \in (j + 1)..Len(s) : Ch(s, k) = ")"}
    IN  IF closes = {} THEN 0 ELSE CHOOSE k \in closes : \A m \in closes : k <= m

RECURSIVE sub_parentheses(_, _)
sub_parentheses(s, i) ==
    IF i > Len(s) THEN ""
    ELSE IF \A m \in i..Len(s) : Ch(s, m) # "(" THEN SubSeq(s, i, Len(s))
    ELSE LET j == SkipSpace(s, i)
             k == IF j <= Len(s) /\ Ch(s, j) = "(" THEN FirstClose(s, j) ELSE 0
         IN  IF k # 0
             THEN " " \o sub_parentheses(s, SkipSpace(s, k + 1))
             ELSE Ch(s, i) \o sub_parentheses(s, i + 1)

\* re.sub(r'\s{2,}', ' ', s): each run of two or more whitespace characters
\* becomes one space; a text without two of them in a row has no match.
RECURSIVE sub_spaces(_, _)
sub_spaces(s, i) ==
    IF i > Len(s) THEN ""
    ELSE IF \A m \in i..(Len(s) - 1) : ~ (Ch(s, m) \in Whitespace /\ Ch(s, m + 1) \in Whitespace)
    THEN SubSeq(s, i, Len(s))
    ELSE LET j == SkipSpace(s, i)
         IN  IF j - i >= 2
             THEN " " \o sub_spaces(s, j)
             ELSE Ch(s, i) \o sub_spaces(s, i + 1)

\* Lines 134-135: the cleaned name.
cleaned_name(raw) == strip(sub_spaces(strip(sub_parentheses(raw, 1)), 1))

\* cleaned_name.split(' - ', 1)
Separator == " - "

\* A plausible slip: splitting at the last separator (rsplit) instead.
split_at_last(s) ==
    LET hits == {i \in 1..(Len(s) - 2) : SubSeq(s, i, i + 2) = Separator}
        i == IF hits = {} THEN 0 ELSE CHOOSE h \in hits : \A j \in hits : h >= j
    IN  IF i = 0 THEN <<s>>
        ELSE <<SubSeq(s, 1, i - 1), SubSeq(s, i + Len(Separator), Len(s))>>

split_once(s) ==
    LET i == find(s, Separator)
    IN  IF i = 0 THEN <<s>>
        ELSE <<SubSeq(s, 1, i - 1), SubSeq(s, i + Len(Separator), Len(s))>>

extract_console_details(raw) ==
    IF raw = None THEN <<Sconosciuto, NomeConsoleSconosciuto>>
    ELSE LET parts == split_once(cleaned_name(raw))
         IN  IF Len(parts) = 2
             THEN LET maker == strip(parts[1])
                      name == strip(parts[2])
                  IN  <<IF maker = "" THEN ProduttoreSconosciuto ELSE maker, name>>
             ELSE <<ProduttoreSconosciuto, cleaned_name(raw)>>

(***************************************************************************)
(* Specification of extract_console_details alone: the argument is any     *)
(* bounded header name, one of the documented examples, or None.           *)
(***************************************************************************)
RawAlphabet == {"a", " ", "-", "(", ")"}

ExampleNames == {"Nintendo - Game Boy", "Game Boy (Color)",
                 "Sega - Mega Drive - Genesis (Retool)"}

RawNames == StringsUpTo(RawAlphabet, MaxRawLen) \cup ExampleNames \cup {None}

DetailsIdle == raw_name = None /\ details = <<>>
ParseIdle == input_doc = NoneObj /\ filepath_stem = "" /\ parsed = NoneObj
ReconIdle ==
    /\ original_header = NoneObj
    /\ games_data = NoneObj
    /\ runs = <<>>
HeaderIdle == header_input = NoneObj /\ mutations = <<>>
BatchIdle ==
    /\ RICH_AVAILABLE = TRUE
    /\ files_to_process = <<>>
    /\ main_pc = "idle"
    /\ success_count = 0
    /\ fail_count = 0
    /\ processed = <<>>
    /\ output_files = <<>>
    /\ writes = <<>>
    /\ failed_ai_response_games = None
SanitizeIdle == unsafe_filename = None /\ safe_filename = None
ScanIdle == directory = {} /\ scans = <<>> /\ scan_pc = "idle"
ThreadIdle ==
    /\ caller = "idle"
    /\ animator = "idle"
    /\ stop_event = FALSE
    /\ lock = None
    /\ stdout = <<>>
    /\ call_outcome = None
LaterIdle == SanitizeIdle /\ ScanIdle /\ ThreadIdle
ApiIdle ==
    /\ api_pc = "idle"
    /\ indicator = "idle"
    /\ api_response = NoneObj
    /\ requests = 0
    /\ api_return = NoneObj
    /\ api_console = <<>>
    /\ invalid_ai_response_start = None

DetailsInit ==
    /\ raw_name \in RawNames
    /\ details = <<>>
    /\ ParseIdle
    /\ ReconIdle
    /\ HeaderIdle
    /\ ApiIdle
    /\ BatchIdle
    /\ LXML_AVAILABLE = TRUE
    /\ LaterIdle

ExtractConsoleDetails ==
    /\ details = <<>>
    /\ details' = extract_console_details(raw_name)
    /\ UNCHANGED <<raw_name, parseVars, LXML_AVAILABLE, reconVars, headerVars, apiVars, batchVars, sanitizeVars, scanVars, threadVars>>

DetailsNext == ExtractConsoleDetails

SpecDetails == DetailsInit /\ [][DetailsNext]_vars

\* What "parenthetical qualifiers removed, whitespace collapsed" leaves: no
\* "(" with a ")" after it, no two adjacent whitespace characters, and no
\* whitespace at either end.
WellCleaned(c) ==
    /\ ~ \E i \in 1..Len(c) : \E j \in (i + 1)..Len(c) : Ch(c, i) = "(" /\ Ch(c, j) = ")"
    /\ ~ \E i \in 1..(Len(c) - 1) : Ch(c, i) \in Whitespace /\ Ch(c, i + 1) \in Whitespace
    /\ strip(c) = c

\* The maker and platform name the claim describes, for the sentinel given.
SplitsAsClaimed(sentinel) ==
    LET c == cleaned_name(raw_name)
    IN  /\ WellCleaned(c)
        /\ IF Contains(c, Separator)
           THEN /\ details[1] \o Separator \o details[2] = c
                /\ \A i \in 1..Len(details[1]) : SubSeq(c, i, i + 2) # Separator
           ELSE details = <<sentinel, c>>
        /\ raw_name = "Nintendo - Game Boy" => details = <<"Nintendo", "Game Boy">>
        /\ raw_name = "Game Boy (Color)" => details = <<sentinel, "Game Boy">>

\* C5 (as amended): extract_console_details splits the cleaned header name
\* on the first " - " into maker and platform name; with no separator the
\* maker is the sentinel "Produttore Sconosciuto" and the platform name is
\* the whole cleaned string.
C5_SplitOnFirstSeparator ==
    (details # <<>> /\ raw_name # None) => SplitsAsClaimed("Produttore Sconosciuto")

\* C5 as stated: the same, with the sentinel "unknown".
C5_SentinelIsUnknown ==
    (details # <<>> /\ raw_name # None) => SplitsAsClaimed("unknown")

\* C5's case: a header name with a qualifier and no separator has been split.
C5_Witness ==
    /\ raw_name = "Game Boy (Color)"
    /\ details = <<"Produttore Sconosciuto", "Game Boy">>

(***************************************************************************)
(* XML texts and elements.                                                 *)
(*   element of a header:  [tag |-> "header", children |-> <<child, ...>>] *)
(*   child of a header:    [tag |-> t, text |-> string or None]            *)
(*   <game> element:       [tag |-> "game", name |-> string or None,       *)
(*                          body |-> what the element contains]            *)
(*   node of a document:   [elem |-> element, tail |-> string]             *)
(***************************************************************************)
\* ET.tostring(element, encoding='unicode', method='xml'): the element and
\* its tail, with no XML declaration.
tostring(node) == [decl |-> FALSE, elem |-> node.elem, tail |-> node.tail]

\* str.strip() of an XML text: the text starts with "<", so only whitespace
\* at the end of the tail goes.
strip_xml(text) == [text EXCEPT !.tail = rstrip(@)]

\* re.sub(r"^\s*<\?xml.*?\?>", "", text): a leading XML declaration goes.
sub_xml_declaration(text) == [text EXCEPT !.decl = FALSE]

\* element.find(tag): the first child with that tag, or None.
find_child(element, tag) ==
    LET hits == {i \in 1..Len(element.children) : element.children[i].tag = tag}
    IN  IF hits = {} THEN NoneObj
        ELSE element.children[CHOOSE i \in hits : \A j \in hits : i <= j]

\* html.escape(value, quote=True), character by character.
EscapeChar(c) ==
    CASE c = "&"  -> "&amp;"
      [] c = "<"  -> "&lt;"
      [] c = ">"  -> "&gt;"
      [] c = "\"" -> "&quot;"
      [] c = "'"  -> "&#x27;"
      [] OTHER    -> c

RECURSIVE html_escape(_)
html_escape(s) == IF Len(s) = 0 THEN "" ELSE EscapeChar(Ch(s, 1)) \o html_escape(Tail(s))

escape_xml_attribute(value) == IF value = None THEN "" ELSE html_escape(value)

\* "\n".join(strings)
RECURSIVE join_lines(_)
join_lines(strings) ==
    IF Len(strings) = 0 THEN ""
    ELSE IF Len(strings) = 1 THEN strings[1]
    ELSE strings[1] \o "\n" \o join_lines(Tail(strings))

\* Python truthiness of an attribute value: neither None nor "".
Truthy(value) == value # None /\ value # ""

(***************************************************************************)
(* parse_and_compress_dat                                                  *)
(***************************************************************************)
\* Line 164: the header used when the document has none.
DefaultHeaderXml ==
    [decl |-> FALSE,
     elem |-> [tag |-> "header",
               children |-> <<[tag |-> "name", text |-> "Header Mancante"],
                              [tag |-> "description",
                               text |-> "Header originale non trovato o illeggibile."]>>],
     tail |-> ""]

\* A plausible slip: the first game of a name is kept, later ones ignored.
RECURSIVE collect_first_seen(_)
collect_first_seen(games) ==
    IF Len(games) = 0 THEN [n \in {} |-> NoneObj]
    ELSE LET before == collect_first_seen(SubSeq(games, 1, Len(games) - 1))
             game_elem == games[Len(games)]
             game_name == game_elem.elem.name
         IN  IF Truthy(game_name) /\ game_name \notin DOMAIN before
             THEN [n \in DOMAIN before \cup {game_name} |->
                      IF n = game_name THEN tostring(game_elem) ELSE before[n]]
             ELSE before

\* Lines 217-224, the dict: each named game's serialisation under its name,
\* a later game replacing an earlier one of the same name.
RECURSIVE collect_games_data(_)
collect_games_data(games) ==
    IF Len(games) = 0 THEN [n \in {} |-> NoneObj]
    ELSE LET before == collect_games_data(SubSeq(games, 1, Len(games) - 1))
             game_elem == games[Len(games)]
             game_name == game_elem.elem.name
         IN  IF Truthy(game_name)
             THEN [n \in DOMAIN before \cup {game_name} |->
                      IF n = game_name THEN tostring(game_elem) ELSE before[n]]
             ELSE before

\* A plausible slip: a tag for every <game>, named or not.
compress_every_game(games) ==
    [i \in 1..Len(games) |->
        "<game name=\"" \o escape_xml_attribute(games[i].elem.name) \o "\"/>"]

\* Lines 217-224, the list: one name-only tag per named game, in document order.
RECURSIVE compressed_game_tags(_)
compressed_game_tags(games) ==
    IF Len(games) = 0 THEN <<>>
    ELSE LET game_name == games[1].elem.name
             rest == compressed_game_tags(Tail(games))
         IN  IF Truthy(game_name)
             THEN <<"<game name=\"" \o escape_xml_attribute(game_name) \o "\"/>">> \o rest
             ELSE rest

\* Lines 227-230: the compressed document, as the three texts it concatenates.
compressed_dat(original_header_xml, games) ==
    <<"<?xml version='1.0' encoding='utf-8'?>\n<datafile>\n",
      strip_xml(original_header_xml),
      "\n" \o join_lines(compressed_game_tags(games)) \o "\n</datafile>">>

ParseResult(maker, name, header, data, compressed, count) ==
    [console_maker |-> maker, console_name |-> name, original_header_xml |-> header,
     original_games_data |-> data, compressed_dat_content |-> compressed,
     game_count_original |-> count]

\* Lines 204-207: with both defaults still in place, the file's stem decides.
details_with_fallback(from_header, stem) ==
    IF from_header[2] = NomeConsoleSconosciuto /\ from_header[1] = Sconosciuto
    THEN extract_console_details(stem)
    ELSE from_header

\* lxml: whether ET is lxml.etree.  Line 173 passes recover= to ET.XMLParser,
\* a keyword xml.etree.ElementTree's parser rejects with a TypeError, which
\* line 234 catches: without lxml no document is parsed.
\* doc.outcome, what lxml's recovering parser makes of the file: "ok" (a tree
\* was built), "ParseError" (ET.ParseError) or "Exception" (any other error
\* while parsing, a tree without a root included).
parse_and_compress_dat(doc, stem, lxml) ==
    CASE ~ lxml ->
            ParseResult(Sconosciuto, "Errore Inaspettato", NoneObj, NoneObj, NoneObj, 0)
      [] doc.outcome = "ParseError" ->
            ParseResult(Sconosciuto, "Errore Parsing XML", NoneObj, NoneObj, NoneObj, 0)
      [] doc.outcome = "Exception" ->
            ParseResult(Sconosciuto, "Errore Parsing Generico", NoneObj, NoneObj, NoneObj, 0)
      [] OTHER ->
            LET header_node == doc.header
                original_header_xml ==
                    IF header_node # NoneObj THEN tostring(header_node) ELSE DefaultHeaderXml
                name_elem ==
                    IF header_node # NoneObj THEN find_child(header_node.elem, "name")
                    ELSE NoneObj
                from_header ==
                    IF name_elem # NoneObj /\ name_elem.text # None
                    THEN extract_console_details(name_elem.text)
                    ELSE <<Sconosciuto, NomeConsoleSconosciuto>>
                found == details_with_fallback(from_header, stem)
            IN  ParseResult(found[1], found[2], original_header_xml,
                            collect_games_data(doc.games),
                            compressed_dat(original_header_xml, doc.games),
                            Len(doc.games))

(***************************************************************************)
(* Specification of parse_and_compress_dat alone: the input is a document  *)
(* with one of a few headers and up to MaxGames <game> elements, or a      *)
(* document that does not parse.                                           *)
(***************************************************************************)
HeaderNode(children, tail) ==
    [elem |-> [tag |-> "header", children |-> children], tail |-> tail]

InputHeaders ==
    {NoneObj,
     HeaderNode(<<[tag |-> "description", text |-> "Game Boy"]>>, "\n\t"),
     HeaderNode(<<[tag |-> "name", text |-> None]>>, "\n\t"),
     HeaderNode(<<[tag |-> "name", text |-> "Nintendo - Game Boy"],
                  [tag |-> "description", text |-> "Nintendo - Game Boy"]>>, "\n\t"),
     HeaderNode(<<[tag |-> "name", text |-> "Game Boy (Color)"]>>, ""),
     HeaderNode(<<[tag |-> "name", text |-> " "]>>, "\n")}

GameNode(name, body, tail) ==
    [elem |-> [tag |-> "game", name |-> name, body |-> body], tail |-> tail]

InputGames ==
    {GameNode("A", "rom1", "\n\t"), GameNode("A", "rom2", "\n"),
     GameNode("B", "rom1", ""), GameNode("B", "rom2", " stray\n"),
     GameNode("A&B", "rom1", "\n\t"),
     GameNode("", "rom1", "\n"), GameNode(None, "rom1", "\n\t")}

RECURSIVE SeqsUpTo(_, _)
SeqsUpTo(S, n) ==
    IF n = 0 THEN {<<>>}
    ELSE LET shorter == SeqsUpTo(S, n - 1)
         IN  shorter \cup {Append(q, x) : q \in shorter, x \in S}

InputStems == {"Sony - PlayStation (20240101)", "gb"}

InputDocs ==
    {[outcome |-> "ok", header |-> h, games |-> g] :
        h \in InputHeaders, g \in SeqsUpTo(InputGames, MaxGames)}
    \cup {[outcome |-> o, header |-> NoneObj, games |-> <<>>] : o \in {"ParseError", "Exception"}}

ParseInit ==
    /\ input_doc \in InputDocs
    /\ filepath_stem \in InputStems
    /\ parsed = NoneObj
    /\ LXML_AVAILABLE \in BOOLEAN
    /\ DetailsIdle
    /\ ReconIdle
    /\ HeaderIdle
    /\ ApiIdle
    /\ BatchIdle
    /\ LaterIdle

ParseAndCompressDat ==
    /\ parsed = NoneObj
    /\ parsed' = parse_and_compress_dat(input_doc, filepath_stem, LXML_AVAILABLE)
    /\ UNCHANGED <<input_doc, filepath_stem, detailsVars, LXML_AVAILABLE, reconVars,
                   headerVars, apiVars, batchVars, sanitizeVars, scanVars, threadVars>>

ParseNext == ParseAndCompressDat

SpecParse == ParseInit /\ [][ParseNext]_vars

\* The input has no header, or a header with no name field or an empty one.
NameMissing(doc) ==
    \/ doc.header = NoneObj
    \/ find_child(doc.header.elem, "name") = NoneObj
    \/ find_child(doc.header.elem, "name").text = None

\* C6: when the (well-formed) document has no header, or no name field, or
\* an empty one, parse_and_compress_dat does not fail: it returns the maker
\* and platform name extracted from the file's stem, with an entry mapping
\* and a compressed document.
C6_FallbackToFileName ==
    (parsed # NoneObj /\ input_doc.outcome = "ok" /\ NameMissing(input_doc)) =>
        /\ <<parsed.console_maker, parsed.console_name>>
               = extract_console_details(filepath_stem)
        /\ filepath_stem = "Sony - PlayStation (20240101)" =>
               <<parsed.console_maker, parsed.console_name>> = <<"Sony", "PlayStation">>
        /\ parsed.original_games_data # NoneObj
        /\ parsed.compressed_dat_content # NoneObj

\* C6's failing case: without lxml a well-formed document that has no header
\* is not parsed at all, and no entry mapping is returned.
C6_FailsWithoutLxml ==
    /\ parsed # NoneObj
    /\ ~ LXML_AVAILABLE
    /\ input_doc.outcome = "ok"
    /\ input_doc.header = NoneObj
    /\ parsed.console_name = "Errore Inaspettato"
    /\ parsed.original_games_data = NoneObj

\* The names of the games that have one, in document order.
RECURSIVE NamedInOrder(_)
NamedInOrder(games) ==
    IF Len(games) = 0 THEN <<>>
    ELSE (IF games[1].elem.name \in {None, ""} THEN <<>> ELSE <<games[1].elem.name>>)
         \o NamedInOrder(Tail(games))

\* The document without its nameless games.
WithoutNameless(doc) ==
    IF doc.outcome = "ok"
    THEN [doc EXCEPT !.games = SelectSeq(@, LAMBDA g : g.elem.name \notin {None, ""})]
    ELSE doc

\* C7: the compressed document is the header followed by one name-only tag
\* for each game that has a non-empty name, in document order; games with
\* no name or an empty one are skipped (the call fails with them only if it
\* fails without them), and a tag holds the escaped name only.
C7_CompressedIsHeaderAndNames ==
    /\ parsed # NoneObj =>
           ((parsed.compressed_dat_content = NoneObj)
               <=> (parse_and_compress_dat(WithoutNameless(input_doc), filepath_stem,
                                           LXML_AVAILABLE).compressed_dat_content = NoneObj))
    /\ (parsed # NoneObj /\ parsed.compressed_dat_content # NoneObj) =>
        LET names == NamedInOrder(input_doc.games)
            tags == [i \in 1..Len(names) |->
                        "<game name=\"" \o html_escape(names[i]) \o "\"/>"]
            doc == parsed.compressed_dat_content
        IN  /\ Len(doc) = 3
            /\ doc[1] = "<?xml version='1.0' encoding='utf-8'?>\n<datafile>\n"
            /\ doc[2] = strip_xml(parsed.original_header_xml)
            /\ doc[3] = "\n" \o join_lines(tags) \o "\n</datafile>"
            /\ \A i \in 1..Len(names) :
                   /\ ~ Contains(doc[3], "rom")
                   /\ names[i] = "A&B" => tags[i] = "<game name=\"A&amp;B\"/>"

\* C7's case: a document with a nameless game between two named ones, one of
\* them with a character that needs escaping, was compressed.
C7_Witness ==
    /\ parsed # NoneObj
    /\ parsed.compressed_dat_content # NoneObj
    /\ input_doc.outcome = "ok"
    /\ Len(input_doc.games) = 3
    /\ input_doc.games[1].elem.name = "B"
    /\ input_doc.games[2].elem.name = None
    /\ input_doc.games[3].elem.name = "A&B"
    /\ parsed.compressed_dat_content[3]
           = "\n<game name=\"B\"/>\n<game name=\"A&amp;B\"/>\n</datafile>"

(***************************************************************************)
(* reconstruct_filtered_dat                                                *)
(*                                                                         *)
(* An oracle response is [text, tree]: the text as call_gemini_api returns *)
(* it, and what ET.fromstring makes of it, [outcome |-> "ok" or "error",   *)
(* root_tag, names |-> the name attribute of each <game>, in order].       *)
(* A console line is [msg, arg].                                           *)
(***************************************************************************)
SCRIPT_VERSION == "1.0.15"
Marker == "(GeminiAKNF)"

Log(msg, arg) == [msg |-> msg, arg |-> arg]

\* Lines 345-348: the names of the response's games that have one.
RECURSIVE kept_game_names(_)
kept_game_names(names) ==
    IF Len(names) = 0 THEN <<>>
    ELSE (IF Truthy(names[1]) THEN <<names[1]>> ELSE <<>>) \o kept_game_names(Tail(names))

\* Python compares strings by code point, a proper prefix first.
Ascii ==
    " !\"#$%&'()*+,-./0123456789:;<=>?@ABCDEFGHIJKLMNOPQRSTUVWXYZ[\\]^_"
    \o Backquote \o "abcdefghijklmnopqrstuvwxyz{|}~"

CodePoint(c) ==
    CASE c = "\t" -> 9 [] c = "\n" -> 10 [] OTHER -> 31 + find(Ascii, c)

RECURSIVE StrLess(_, _)
StrLess(a, b) ==
    IF Len(b) = 0 THEN FALSE
    ELSE IF Len(a) = 0 THEN TRUE
    ELSE IF Ch(a, 1) = Ch(b, 1) THEN StrLess(Tail(a), Tail(b))
    ELSE CodePoint(Ch(a, 1)) < CodePoint(Ch(b, 1))

RECURSIVE sorted(_)
sorted(S) ==
    IF S = {} THEN <<>>
    ELSE LET least == CHOOSE x \in S : \A y \in S \ {x} : StrLess(x, y)
         IN  <<least>> \o sorted(S \ {least})

set_of(list) == {list[i] : i \in 1..Len(list)}

\* Plausible slips: the names as the oracle listed them (no set(), no sorted()),
\* and the distinct names in the oracle's order (no sorted()).
names_as_listed(kept) == kept

RECURSIVE names_in_oracle_order(_)
names_in_oracle_order(kept) ==
    IF Len(kept) = 0 THEN <<>>
    ELSE LET before == names_in_oracle_order(SubSeq(kept, 1, Len(kept) - 1))
             last == kept[Len(kept)]
         IN  IF last \in set_of(before) THEN before ELSE Append(before, last)

\* Line 430: sorted(list(set(kept_game_names)))
unique_kept_names(kept) == sorted(set_of(kept))

\* A plausible slip: the marker is appended without looking for it first.
description_text_appended(text) ==
    LET original_desc == IF Truthy(text) THEN strip(text) ELSE ""
    IN  strip(original_desc \o " " \o Marker)

\* Lines 369-371: the description's new text.
description_text(text) ==
    LET original_desc == IF Truthy(text) THEN strip(text) ELSE ""
    IN  IF ~ Contains(original_desc, Marker)
        THEN strip(original_desc \o " " \o Marker)
        ELSE text

\* The index (from 1) of the first child with the tag, 0 if there is none.
first_index(children, tag) ==
    LET hits == {i \in 1..Len(children) : children[i].tag = tag}
    IN  IF hits = {} THEN 0 ELSE CHOOSE i \in hits : \A j \in hits : i <= j

\* Lines 367-374.
mutate_description(children) ==
    LET i == first_index(children, "description")
    IN  IF i # 0
        THEN [children EXCEPT ![i].text = description_text(@)]
        ELSE Append(children, [tag |-> "description", text |-> Marker])

\* Lines 377-379: header_element.remove(header_element.find('geminiaknf')).
remove_existing_aknf(children) ==
    LET i == first_index(children, "geminiaknf")
    IN  IF i # 0
        THEN SubSeq(children, 1, i - 1) \o SubSeq(children, i + 1, Len(children))
        ELSE children

\* Lines 382-383.
aknf_tag == [tag |-> "geminiaknf", text |-> "Created by Gemini AKNF ver. " \o SCRIPT_VERSION]

\* A plausible slip: the tag is always appended.
insert_at_end(children) == Len(children)

\* Lines 386-403: Python's (0-based) index for the insertion.
insert_index(children) ==
    IF first_index(children, "retool") # 0
    THEN (first_index(children, "retool") - 1) + 1
    ELSE IF first_index(children, "clrmamepro") # 0
    THEN first_index(children, "clrmamepro") - 1
    ELSE Len(children)

\* list.insert(index, x), for 0 <= index <= len.
list_insert(list, index, x) ==
    SubSeq(list, 1, index) \o <<x>> \o SubSeq(list, index + 1, Len(list))

\* Lines 366-405: the header mutation.
mutate_header(header_element) ==
    LET with_description == mutate_description(header_element.children)
        without_aknf == remove_existing_aknf(with_description)
    IN  [header_element EXCEPT
            !.children = list_insert(without_aknf, insert_index(without_aknf), aknf_tag)]

\* Lines 362-364: without lxml ET.XMLParser rejects recover= (a TypeError);
\* with it the header's serialisation is parsed in recovery mode, which
\* ignores any text after the header's end tag.
header_parses(header_xml, lxml) == lxml

\* Lines 360-420: the final header text (final_header_str).  lxml's
\* pretty_print ends the text with a newline, which strip() removes; on a
\* parse error the original text is used.
final_header_str(header_xml, lxml) ==
    IF header_parses(header_xml, lxml)
    THEN strip_xml([decl |-> FALSE, elem |-> mutate_header(header_xml.elem),
                    tail |-> "\n"])
    ELSE strip_xml(header_xml)

\* A plausible slip: the entry is taken from the oracle's own (name-only) tag.
entry_from_oracle(name, original_games_data) ==
    [decl |-> FALSE, elem |-> [tag |-> "game", name |-> name, body |-> ""], tail |-> ""]

\* Lines 435-440: the part appended for a name of the Catalog Store.
game_data_cleaned(name, original_games_data) ==
    strip_xml(sub_xml_declaration(original_games_data[name]))

\* Lines 434-444: the loop over the sorted names.
RECURSIVE resolve_names(_, _)
resolve_names(names, original_games_data) ==
    IF Len(names) = 0
    THEN [parts |-> <<>>, found_count |-> 0, missing_count |-> 0, console |-> <<>>]
    ELSE LET name == names[1]
             rest == resolve_names(Tail(names), original_games_data)
         IN  IF name \in DOMAIN original_games_data
             THEN [rest EXCEPT !.parts = <<game_data_cleaned(name, original_games_data)>> \o @,
                               !.found_count = @ + 1]
             ELSE [rest EXCEPT !.missing_count = @ + 1,
                               !.console = <<Log("Gioco restituito da IA ma non trovato nel DAT originale. Sara' omesso.", name)>> \o @]

ReconResult(content, found, missing, console, dump) ==
    [final_dat_content |-> content, found_count |-> found, missing_count |-> missing,
     console |-> console, failed_ai_response_games |-> dump]

\* dump_ok: whether failed_ai_response_games.xml can be written (lines 353-357);
\* the last field of the result is what is written to it (None: nothing).
\* ai_response_xml.tree: what lxml's recovering parser makes of the text.
\* Without lxml line 339 raises a TypeError (recover= is no keyword of
\* xml.etree.ElementTree's parser), which line 350 catches as a parse failure.
\* The final re-parse and pretty-print (lines 454-463) leaves the joined parts:
\* lxml's tostring refuses an XML declaration for encoding='unicode', which
\* line 460 catches.
reconstruct_filtered_dat(ai_response_xml, original_header_xml, original_games_data, lxml, dump_ok) ==
    IF ai_response_xml.text = ""
    THEN ReconResult(NoneObj, 0, 0,
                     <<Log("Ricostruzione DAT filtrato...", ""),
                       Log("ERRORE: Nessuna risposta XML dall'IA per ricostruire.", "")>>,
                     None)
    ELSE IF ~ lxml \/ ai_response_xml.tree.outcome # "ok"
    THEN ReconResult(NoneObj, 0, 0,
                     <<Log("Ricostruzione DAT filtrato...", ""),
                       Log("ERRORE FATALE: Impossibile fare il parsing dei giochi dalla risposta XML dell'IA", "")>>
                     \o (IF dump_ok
                         THEN <<Log("Risposta fallita salvata in failed_ai_response_games.xml", "")>>
                         ELSE <<>>),
                     IF dump_ok THEN ai_response_xml.text ELSE None)
    ELSE LET root_tag_name == ai_response_xml.tree.root_tag
             names == unique_kept_names(kept_game_names(ai_response_xml.tree.names))
             resolved == resolve_names(names, original_games_data)
         IN  ReconResult(
                 <<"<?xml version='1.0' encoding='utf-8'?>",
                   "<" \o root_tag_name \o ">",
                   final_header_str(original_header_xml, lxml)>>
                 \o resolved.parts
                 \o <<"</" \o root_tag_name \o ">">>,
                 resolved.found_count,
                 resolved.missing_count,
                 <<Log("Ricostruzione DAT filtrato...", "")>>
                 \o (IF header_parses(original_header_xml, lxml) THEN <<>>
                     ELSE <<Log("Avviso: Errore modificando l'header originale. Uso header originale non modificato.", "")>>)
                 \o resolved.console
                 \o <<Log("Ricostruzione completata.", "")>>
                 \o (IF lxml
                     THEN <<Log("Avviso: Errore durante pretty-printing finale con lxml", "")>>
                     ELSE <<>>),
                 None)

(***************************************************************************)
(* Specification of reconstruct_filtered_dat alone: for a Catalog Store    *)
(* and a header, the oracle answers, and then answers again with the same  *)
(* selection (in any order, with any repetitions, under any root tag).     *)
(***************************************************************************)
OracleNames == {"A", "AB", "B", ""}

OracleTexts ==
    {[text |-> "<datafile>", root_tag |-> "datafile"],
     [text |-> "<?xml version='1.0' encoding='utf-8'?><games>", root_tag |-> "games"]}

OracleResponses ==
    {[text |-> t.text, tree |-> [outcome |-> "ok", root_tag |-> t.root_tag, names |-> n]] :
        t \in OracleTexts, n \in SeqsUpTo(OracleNames, MaxSelected)}
    \cup {[text |-> "<?xml version='1.0'?><datafile", tree |-> [outcome |-> "error"]],
          [text |-> "", tree |-> [outcome |-> "error"]]}

ReconStores ==
    {collect_games_data(<<GameNode("B", "rom1", "\n\t"), GameNode("A", "rom1", "\n"),
                          GameNode("A", "rom2", " stray\n")>>),
     collect_games_data(<<>>)}

ReconHeaders ==
    {tostring(HeaderNode(<<[tag |-> "name", text |-> "Nintendo - Game Boy"],
                           [tag |-> "description", text |-> "Nintendo - Game Boy"]>>, "\n\t"))}

\* The selection of a response: the set of its non-empty names.
Selection(response) ==
    IF response.tree.outcome = "ok"
    THEN {n \in set_of(response.tree.names) : n \notin {None, ""}}
    ELSE {}

\* The header and the Catalog Store are those of a successful parse (line
\* 578 follows the check of line 551), which line 173 allows only with lxml.
ReconInit ==
    /\ LXML_AVAILABLE = TRUE
    /\ original_header \in ReconHeaders
    /\ games_data \in ReconStores
    /\ runs = <<>>
    /\ DetailsIdle
    /\ ParseIdle
    /\ HeaderIdle
    /\ ApiIdle
    /\ BatchIdle
    /\ LaterIdle

Run(response, dump_ok) ==
    [ai_response_xml |-> response,
     result |-> reconstruct_filtered_dat(response, original_header, games_data,
                                         LXML_AVAILABLE, dump_ok)]

Reconstruct ==
    /\ runs = <<>>
    /\ \E response \in OracleResponses, dump_ok \in BOOLEAN :
           runs' = <<Run(response, dump_ok)>>
    /\ UNCHANGED <<detailsVars, parseVars, LXML_AVAILABLE, original_header, games_data,
                   headerVars, apiVars, batchVars, sanitizeVars, scanVars, threadVars>>

ReconstructAgain ==
    /\ Len(runs) = 1
    /\ runs[1].ai_response_xml.tree.outcome = "ok"
    /\ \E response \in OracleResponses :
           /\ response.tree.outcome = "ok"
           /\ Selection(response) = Selection(runs[1].ai_response_xml)
           /\ runs' = Append(runs, Run(response, TRUE))
    /\ UNCHANGED <<detailsVars, parseVars, LXML_AVAILABLE, original_header, games_data,
                   headerVars, apiVars, batchVars, sanitizeVars, scanVars, threadVars>>

ReconNext == Reconstruct \/ ReconstructAgain

SpecRecon == ReconInit /\ [][ReconNext]_vars

\* The entries of an Output Document: its parts between the header and the
\* root's end tag.
Entries(content) == SubSeq(content, 4, Len(content) - 1)

\* The selected names the Catalog Store holds.
Resolved(run) == Selection(run.ai_response_xml) \cap DOMAIN games_data

Reconstructed(run) == run.result.final_dat_content # NoneObj

\* C1 (as amended): the entries emitted are exactly the stored fragments of
\* the selected names the store holds, each with the whitespace at its end
\* stripped and otherwise unchanged; one entry per such name, nothing else.
C1_EntriesAreStoredFragmentsStripped ==
    \A i \in 1..Len(runs) :
        Reconstructed(runs[i]) =>
            LET entries == Entries(runs[i].result.final_dat_content)
            IN  /\ set_of(entries)
                       = {[games_data[n] EXCEPT !.tail = rstrip(@)] : n \in Resolved(runs[i])}
                /\ Len(entries) = Cardinality(Resolved(runs[i]))

\* C1 as stated: the entries emitted are exactly the stored fragments,
\* unchanged.
C1_EntriesAreStoredFragments ==
    \A i \in 1..Len(runs) :
        Reconstructed(runs[i]) =>
            set_of(Entries(runs[i].result.final_dat_content))
                = {games_data[n] : n \in Resolved(runs[i])}

\* C1's case: a selection of three names, listed out of order, was
\* reconstructed into the two entries stored under the names it knows.
C1_Witness ==
    /\ Len(runs) = 1
    /\ runs[1].ai_response_xml.tree.outcome = "ok"
    /\ runs[1].ai_response_xml.tree.names = <<"B", "AB", "A">>
    /\ Reconstructed(runs[1])
    /\ Len(Entries(runs[1].result.final_dat_content)) = 2
    /\ Entries(runs[1].result.final_dat_content)[1].elem.body = "rom2"

EntryNames(content) == [k \in 1..Len(Entries(content)) |-> Entries(content)[k].elem.name]

\* The entries are in strictly ascending order of name, one for each
\* selected name the store holds.
AscendingDistinct(run) ==
    LET names == EntryNames(run.result.final_dat_content)
    IN  /\ \A k \in 1..(Len(names) - 1) : StrLess(names[k], names[k + 1])
        /\ set_of(names) = Resolved(run)

\* C2 (as amended): the entries of the Output Document are the distinct
\* selected names found in the store, strictly ascending, one fragment per
\* name; two responses with the same set of names and the same root tag
\* reconstruct to identical documents.
C2_SortedAndDeterministicPerRootTag ==
    /\ \A i \in 1..Len(runs) : Reconstructed(runs[i]) => AscendingDistinct(runs[i])
    /\ \A i, j \in 1..Len(runs) :
           (/\ Reconstructed(runs[i]) /\ Reconstructed(runs[j])
            /\ Selection(runs[i].ai_response_xml) = Selection(runs[j].ai_response_xml)
            /\ runs[i].ai_response_xml.tree.root_tag = runs[j].ai_response_xml.tree.root_tag)
           => runs[i].result.final_dat_content = runs[j].result.final_dat_content

\* C2 as stated: two responses with the same set of names reconstruct to
\* identical documents, whatever else they differ in.
C2_DeterministicForSameNames ==
    /\ \A i \in 1..Len(runs) : Reconstructed(runs[i]) => AscendingDistinct(runs[i])
    /\ \A i, j \in 1..Len(runs) :
           (/\ Reconstructed(runs[i]) /\ Reconstructed(runs[j])
            /\ Selection(runs[i].ai_response_xml) = Selection(runs[j].ai_response_xml))
           => runs[i].result.final_dat_content = runs[j].result.final_dat_content

\* C2's case: the oracle listed B, A, A and then A, B under the same root
\* tag, and both documents hold A then B.
C2_Witness ==
    /\ Len(runs) = 2
    /\ runs[1].ai_response_xml.tree.names = <<"B", "A", "A">>
    /\ runs[2].ai_response_xml.tree.names = <<"A", "B">>
    /\ runs[1].ai_response_xml.tree.root_tag = runs[2].ai_response_xml.tree.root_tag
    /\ EntryNames(runs[1].result.final_dat_content) = <<"A", "B">>
    /\ runs[2].result.final_dat_content = runs[1].result.final_dat_content

Omissions(run, name) ==
    {k \in 1..Len(run.result.console) :
        /\ run.result.console[k].arg = name
        /\ run.result.console[k].msg
               = "Gioco restituito da IA ma non trovato nel DAT originale. Sara' omesso."}

\* C3: a selected name with no Catalog Store match is not fatal: a document
\* is returned, the name contributes no entry, one omission is logged for
\* it, and found_count + missing_count is the number of distinct selected
\* names; with no name found the document holds the header only.
C3_UnknownNamesAreOmitted ==
    \A i \in 1..Len(runs) :
        LET run == runs[i]
            unknown == Selection(run.ai_response_xml) \ DOMAIN games_data
        IN  (run.ai_response_xml.text # "" /\ run.ai_response_xml.tree.outcome = "ok") =>
                /\ Reconstructed(run)
                /\ run.result.found_count + run.result.missing_count
                       = Cardinality(Selection(run.ai_response_xml))
                /\ run.result.missing_count = Cardinality(unknown)
                /\ \A n \in unknown :
                       /\ n \notin set_of(EntryNames(run.result.final_dat_content))
                       /\ Cardinality(Omissions(run, n)) = 1
                /\ Resolved(run) = {} => Len(run.result.final_dat_content) = 4

\* C3's case: a selection of one known name and one unknown name, listed
\* twice, was reconstructed: one entry, one omission.
C3_Witness ==
    /\ Len(runs) = 1
    /\ runs[1].ai_response_xml.tree.outcome = "ok"
    /\ runs[1].ai_response_xml.tree.names = <<"AB", "A", "AB">>
    /\ Reconstructed(runs[1])
    /\ runs[1].result.found_count = 1
    /\ runs[1].result.missing_count = 1

(***************************************************************************)
(* Specification of the header mutation alone (lines 360-420): a header of *)
(* up to MaxChildren children is mutated, and the result is mutated again. *)
(***************************************************************************)
HeaderChildren ==
    {[tag |-> "name", text |-> "Nintendo - Game Boy"],
     [tag |-> "description", text |-> None],
     [tag |-> "description", text |-> "Game Boy"],
     [tag |-> "description", text |-> " Game Boy\n"],
     [tag |-> "description", text |-> "Game Boy (GeminiAKNF)"],
     [tag |-> "description", text |-> "(GeminiAKNF) Game Boy (GeminiAKNF)"],
     [tag |-> "retool", text |-> "Created by Retool"],
     [tag |-> "clrmamepro", text |-> None],
     [tag |-> "geminiaknf", text |-> "Created by Gemini AKNF ver. 1.0.14"]}

HeaderInputs ==
    {tostring(HeaderNode(children, tail)) :
        children \in SeqsUpTo(HeaderChildren, MaxChildren), tail \in {"\n\t", " stray\n"}}

\* Line 362 is reached only once line 339 has built its parser: with lxml.
HeaderInit ==
    /\ LXML_AVAILABLE = TRUE
    /\ header_input \in HeaderInputs
    /\ mutations = <<>>
    /\ DetailsIdle
    /\ ParseIdle
    /\ ReconIdle
    /\ ApiIdle
    /\ BatchIdle
    /\ LaterIdle

CurrentHeader == IF mutations = <<>> THEN header_input ELSE mutations[Len(mutations)]

MutateHeader ==
    /\ Len(mutations) < 2
    /\ mutations' = Append(mutations, final_header_str(CurrentHeader, LXML_AVAILABLE))
    /\ UNCHANGED <<detailsVars, parseVars, LXML_AVAILABLE, reconVars, header_input, apiVars,
                   batchVars, sanitizeVars, scanVars, threadVars>>

HeaderNext == MutateHeader

SpecHeader == HeaderInit /\ [][HeaderNext]_vars

\* The text of the header's (first) description element; None without one.
Description(header_xml) ==
    IF first_index(header_xml.elem.children, "description") = 0 THEN None
    ELSE header_xml.elem.children[first_index(header_xml.elem.children, "description")].text

Occurrences(s, sub) ==
    IF s = None THEN 0
    ELSE Cardinality({i \in 1..(Len(s) - Len(sub) + 1) : SubSeq(s, i, i + Len(sub) - 1) = sub})

\* C4 (as amended): the header mutation is idempotent on the marker: applied
\* to its own result it leaves the description as one application did, and
\* that text contains "(GeminiAKNF)" -- exactly once unless the input
\* description already held it more than once.
C4_MarkerIdempotent ==
    /\ Len(mutations) >= 1 =>
           /\ Occurrences(Description(mutations[1]), Marker) >= 1
           /\ Occurrences(Description(header_input), Marker) <= 1
                  => Occurrences(Description(mutations[1]), Marker) = 1
    /\ Len(mutations) = 2 => Description(mutations[2]) = Description(mutations[1])

\* C4 as stated: idempotent, and the text contains the marker exactly once.
C4_MarkerExactlyOnce ==
    /\ Len(mutations) >= 1 => Occurrences(Description(mutations[1]), Marker) = 1
    /\ Len(mutations) = 2 => Description(mutations[2]) = Description(mutations[1])

\* C4's case: a header whose description had no marker was mutated twice.
C4_Witness ==
    /\ Len(mutations) = 2
    /\ Description(header_input) = " Game Boy\n"
    /\ Description(mutations[1]) = "Game Boy (GeminiAKNF)"
    /\ Description(mutations[2]) = "Game Boy (GeminiAKNF)"

\* The places of the children with a tag.
TagIndices(children, tag) == {i \in 1..Len(children) : children[i].tag = tag}

\* The header before the m-th mutation, and after it.
ChildrenBefore(m) ==
    IF m = 1 THEN header_input.elem.children ELSE mutations[m - 1].elem.children

ChildrenAfter(m) == mutations[m].elem.children

\* C16: after the header mutation the header has exactly one geminiaknf
\* tag, the one with the current version, whatever tags of that kind it had
\* before.
C16_ExactlyOneProvenanceTag ==
    \A m \in 1..Len(mutations) :
        /\ Cardinality(TagIndices(ChildrenAfter(m), "geminiaknf")) = 1
        /\ \A i \in TagIndices(ChildrenAfter(m), "geminiaknf") : ChildrenAfter(m)[i] = aknf_tag

\* C16's failing case: the header had two geminiaknf tags of an earlier
\* version; the mutation has removed the first of them only, and the header
\* has the new tag and an old one.
C16_StaleTagRemains ==
    /\ Len(mutations) >= 1
    /\ Cardinality(TagIndices(ChildrenBefore(1), "geminiaknf")) = 2
    /\ Cardinality(TagIndices(ChildrenAfter(1), "geminiaknf")) = 2
    /\ \E i, j \in TagIndices(ChildrenAfter(1), "geminiaknf") :
           /\ ChildrenAfter(1)[i] = aknf_tag
           /\ ChildrenAfter(1)[j].text = "Created by Gemini AKNF ver. 1.0.14"

\* What does hold: the mutation removes one geminiaknf tag, if there is one,
\* and adds the new one: exactly one tag after it for a header that had at
\* most one.
OneProvenanceTagRemovedOneAdded ==
    \A m \in 1..Len(mutations) :
        LET had == Cardinality(TagIndices(ChildrenBefore(m), "geminiaknf"))
            has == Cardinality(TagIndices(ChildrenAfter(m), "geminiaknf"))
        IN  /\ has = IF had = 0 THEN 1 ELSE had
            /\ \E i \in TagIndices(ChildrenAfter(m), "geminiaknf") : ChildrenAfter(m)[i] = aknf_tag
            /\ had <= 1 => has = 1

Without(list, i) == SubSeq(list, 1, i - 1) \o SubSeq(list, i + 1, Len(list))

TagsOf(children) == [i \in 1..Len(children) |-> children[i].tag]

First(indices) == CHOOSE i \in indices : \A j \in indices : i <= j

\* The new tag stands at place p of after, as the claim has it for a header
\* that had the children before.
PlacedAsClaimed(before, after, p) ==
    /\ after[p] = aknf_tag
    /\ IF TagIndices(before, "retool") # {}
       THEN /\ p > 1
            /\ p - 1 = First(TagIndices(after, "retool"))
       ELSE IF TagIndices(before, "clrmamepro") # {}
       THEN /\ p < Len(after)
            /\ p + 1 = First(TagIndices(after, "clrmamepro"))
       ELSE p = Len(after)

\* The children other than the new tag are those the header had, in their
\* order, less the geminiaknf tag removed and with the description added
\* at the end if there was none.
OthersKeepOrder(before, after, p) ==
    LET stale == TagIndices(before, "geminiaknf")
        kept == IF stale = {} THEN before ELSE Without(before, First(stale))
    IN  TagsOf(Without(after, p))
            = TagsOf(kept) \o (IF TagIndices(before, "description") = {}
                               THEN <<"description">> ELSE <<>>)

\* C17: the new tag is inserted immediately after the (first) retool tag if
\* the header has one, otherwise immediately before the (first) clrmamepro
\* tag if it has one, otherwise as the last child, after a description the
\* mutation may have added; the other children keep their relative order.
C17_InsertedAtPreferredPlace ==
    \A m \in 1..Len(mutations) :
        \E p \in 1..Len(ChildrenAfter(m)) :
            /\ PlacedAsClaimed(ChildrenBefore(m), ChildrenAfter(m), p)
            /\ OthersKeepOrder(ChildrenBefore(m), ChildrenAfter(m), p)

\* C17's case: a header with retool before clrmamepro and no description
\* has the new tag between the two and the description at its end.
C17_Witness ==
    /\ Len(mutations) >= 1
    /\ TagsOf(ChildrenBefore(1)) = <<"name", "retool", "clrmamepro">>
    /\ TagsOf(ChildrenAfter(1)) = <<"name", "retool", "geminiaknf", "clrmamepro", "description">>
    /\ ChildrenAfter(1)[3] = aknf_tag

(***************************************************************************)
(* call_gemini_api                                                         *)
(*                                                                         *)
(* What model.generate_content did is [kind |-> "raise"] (any exception:   *)
(* transport error, timeout) or [kind |-> "response", text, block_reason,  *)
(* tree]: the response's text (None without one), the reason the prompt    *)
(* was blocked for (None without one), and what an XML parser makes of the *)
(* normalised text.                                                        *)
(***************************************************************************)
\* The code-fence marker: three backquotes.
Fence == Backquote \o Backquote \o Backquote

endswith(s, suffix) ==
    Len(s) >= Len(suffix) /\ SubSeq(s, Len(s) - Len(suffix) + 1, Len(s)) = suffix

\* Line 307: the leading fence marker followed by xml in any case, and the
\* white space after it, removed.
sub_leading_xml_fence(s) ==
    IF /\ Len(s) >= 6
       /\ SubSeq(s, 1, 3) = Fence
       /\ Ch(s, 4) \in {"x", "X"} /\ Ch(s, 5) \in {"m", "M"} /\ Ch(s, 6) \in {"l", "L"}
    THEN lstrip(SubSeq(s, 7, Len(s)))
    ELSE s

\* Line 308: a leading fence marker and the white space after it, removed.
sub_leading_fence(s) == IF startswith(s, Fence) THEN lstrip(SubSeq(s, 4, Len(s))) ELSE s

\* Line 309: a trailing fence marker and the white space before it, removed
\* (s has no newline at its end: it was stripped at line 306).
sub_trailing_fence(s) == IF endswith(s, Fence) THEN rstrip(SubSeq(s, 1, Len(s) - 3)) ELSE s

\* Lines 306-311.
normalized_response(text) ==
    strip(sub_trailing_fence(sub_leading_fence(sub_leading_xml_fence(strip(text)))))

\* A plausible slip: any text that mentions a preamble passes.
mentions_preamble(text) == Contains(text, "<?xml") \/ Contains(text, "<datafile>")

\* Line 313: text_response.startswith(("<?xml", "<datafile>"))
starts_with_preamble(text) == startswith(text, "<?xml") \/ startswith(text, "<datafile>")

ApiResult(value, console, dump) == [value |-> value, console |-> console, dump |-> dump]

\* Lines 290-324, after the request: the value returned, the lines printed
\* and what is written to invalid_ai_response_start.xml (None: nothing).
\* write_ok: whether that file can be written.
call_gemini_api(reply, write_ok) ==
    IF reply.kind = "raise"
    THEN ApiResult(NoneObj, <<Log("Fallita: Errore durante la chiamata API Gemini", "")>>, None)
    ELSE IF ~ Truthy(reply.text)
    THEN ApiResult(NoneObj,
                   <<Log("Fallita", IF reply.block_reason # None
                                    THEN "Richiesta bloccata per: " \o reply.block_reason
                                    ELSE "Nessuna risposta testuale ricevuta.")>>,
                   None)
    ELSE LET text_response == normalized_response(reply.text)
         IN  IF ~ starts_with_preamble(text_response)
             THEN ApiResult(NoneObj,
                            <<Log("Risposta API ricevuta.", ""),
                              Log("ERRORE: La risposta dell'IA non sembra XML valido.", ""),
                              IF write_ok
                              THEN Log("Risposta problematica salvata in invalid_ai_response_start.xml", "")
                              ELSE Log("Avviso: Impossibile salvare invalid_ai_response_start.xml", "")>>,
                            IF write_ok THEN text_response ELSE None)
             ELSE ApiResult([text |-> text_response, tree |-> reply.tree],
                            <<Log("Risposta API ricevuta.", "")>>, None)

(***************************************************************************)
(* Specification of call_gemini_api alone.                                 *)
(***************************************************************************)
Leads == {"", "\n ", Fence \o "xml\n", Fence \o "XML ", Fence \o "\n",
          Fence \o " " \o Fence \o "xml\n", "Here you go:\n"}
Cores == {"<?xml version='1.0' encoding='utf-8'?>\n<datafile>\n</datafile>",
          "<datafile>\n</datafile>", "<games>\n</games>", "<DATAFILE/>",
          "I cannot help: <datafile> is too long", " "}
Trails == {"", "\n", "\n" \o Fence, "\n" \o Fence \o "\n", Fence \o "\n" \o Fence}

OracleTree == [outcome |-> "ok", root_tag |-> "datafile", names |-> <<"A">>]

Replies ==
    {[kind |-> "raise"]}
    \cup {[kind |-> "response", text |-> t, block_reason |-> b, tree |-> NoneObj] :
            t \in {None, ""}, b \in {None, "SAFETY"}}
    \cup {[kind |-> "response", text |-> lead \o core \o trail, block_reason |-> None,
           tree |-> OracleTree] : lead \in Leads, core \in Cores, trail \in Trails}

ApiInit ==
    /\ api_pc = "start"
    /\ indicator = "idle"
    /\ api_response = NoneObj
    /\ requests = 0
    /\ api_return = NoneObj
    /\ api_console = <<>>
    /\ invalid_ai_response_start \in {None, "left by an earlier run"}
    /\ LXML_AVAILABLE = TRUE
    /\ DetailsIdle
    /\ ParseIdle
    /\ ReconIdle
    /\ HeaderIdle
    /\ BatchIdle
    /\ LaterIdle

notApi == <<detailsVars, parseVars, LXML_AVAILABLE, reconVars, headerVars, batchVars, sanitizeVars, scanVars, threadVars>>

\* Line 275: indicator.start()
IndicatorStart ==
    /\ api_pc = "start"
    /\ indicator' = "running"
    /\ api_pc' = "request"
    /\ UNCHANGED <<api_response, requests, api_return, api_console, invalid_ai_response_start,
                   notApi>>

\* Lines 278-286: the request, which returns a response or raises.
GenerateContent ==
    /\ api_pc = "request"
    /\ \E reply \in Replies : api_response' = reply
    /\ requests' = requests + 1
    /\ api_pc' = "stop"
    /\ UNCHANGED <<indicator, api_return, api_console, invalid_ai_response_start, notApi>>

\* Lines 287-288: finally, indicator.stop()
IndicatorStop ==
    /\ api_pc = "stop"
    /\ indicator' = "stopped"
    /\ api_pc' = "evaluate"
    /\ UNCHANGED <<api_response, requests, api_return, api_console, invalid_ai_response_start,
                   notApi>>

\* Lines 290-324.
EvaluateResponse ==
    /\ api_pc = "evaluate"
    /\ \E write_ok \in BOOLEAN :
           LET outcome == call_gemini_api(api_response, write_ok)
           IN  /\ api_return' = outcome.value
               /\ api_console' = api_console \o outcome.console
               /\ invalid_ai_response_start' =
                      IF outcome.dump # None THEN outcome.dump
                      ELSE invalid_ai_response_start
    /\ api_pc' = "returned"
    /\ UNCHANGED <<indicator, api_response, requests, notApi>>

ApiNext == IndicatorStart \/ GenerateContent \/ IndicatorStop \/ EvaluateResponse

SpecApi == ApiInit /\ [][ApiNext]_vars

Returned == api_pc = "returned"

Preamble(text) ==
    \/ (Len(text) >= 5 /\ SubSeq(text, 1, 5) = "<?xml")
    \/ (Len(text) >= 10 /\ SubSeq(text, 1, 10) = "<datafile>")

HasText == api_response.kind = "response" /\ api_response.text \notin {None, ""}

Logged(console, msg) == \E k \in 1..Len(console) : console[k].msg = msg

\* Fenced and padded texts, and what is left of them.
NormalizedExamples ==
    /\ normalized_response(Fence \o "xml\n<datafile>\n</datafile>\n" \o Fence \o "\n")
           = "<datafile>\n</datafile>"
    /\ normalized_response("\n " \o Fence \o "\n<games>\n</games>" \o Fence) = "<games>\n</games>"
    /\ normalized_response("Here you go:\n<datafile>\n</datafile>\n")
           = "Here you go:\n<datafile>\n</datafile>"

\* What C8 says of every call but the writing of the artifact.
UsableOnlyWithPreamble ==
    /\ NormalizedExamples
    /\ Returned =>
           /\ requests = 1
           /\ indicator = "stopped"
           /\ api_return # NoneObj
                  <=> (HasText /\ Preamble(normalized_response(api_response.text)))
           /\ api_return # NoneObj =>
                  api_return.text = normalized_response(api_response.text)

NotAPreamble == HasText /\ ~ Preamble(normalized_response(api_response.text))

MAX_LEN_BYTES == 200

\* The functions on a name halve it rather than walk it, names being long.

\* str.replace and re.sub with a class of single characters: each character
\* of s[lo..hi] that is in chars gives way to with.
RECURSIVE replace_range(_, _, _, _, _)
replace_range(s, lo, hi, chars, with) ==
    IF lo > hi THEN ""
    ELSE IF lo = hi THEN (IF Ch(s, lo) \in chars THEN with ELSE Ch(s, lo))
    ELSE replace_range(s, lo, (lo + hi) \div 2, chars, with)
         \o replace_range(s, (lo + hi) \div 2 + 1, hi, chars, with)

replace_chars(s, chars, with) == replace_range(s, 1, Len(s), chars, with)

\* Line 473: every run of white space becomes one space.
RECURSIVE collapse_range(_, _, _)
collapse_range(s, lo, hi) ==
    IF lo > hi THEN ""
    ELSE IF lo = hi
    THEN (IF Ch(s, lo) \notin Whitespace THEN Ch(s, lo)
          ELSE IF lo > 1 /\ Ch(s, lo - 1) \in Whitespace THEN "" ELSE " ")
    ELSE collapse_range(s, lo, (lo + hi) \div 2) \o collapse_range(s, (lo + hi) \div 2 + 1, hi)

collapse_whitespace(s) == collapse_range(s, 1, Len(s))

\* The last index of s[lo..hi] whose character is in chars (inside) or is
\* not (~ inside); 0 without one.
RECURSIVE last_index(_, _, _, _, _)
last_index(s, chars, inside, lo, hi) ==
    IF lo > hi THEN 0
    ELSE IF lo = hi THEN (IF (Ch(s, lo) \in chars) = inside THEN lo ELSE 0)
    ELSE LET right == last_index(s, chars, inside, (lo + hi) \div 2 + 1, hi)
         IN  IF right # 0 THEN right
             ELSE last_index(s, chars, inside, lo, (lo + hi) \div 2)

\* str.rstrip(chars)
rstrip_chars(s, chars) == SubSeq(s, 1, last_index(s, chars, FALSE, 1, Len(s)))

Lowercase == "abcdefghijklmnopqrstuvwxyz"
Uppercase == "ABCDEFGHIJKLMNOPQRSTUVWXYZ"

\* str.upper and str.lower: each letter of s[lo..hi] that is in from gives
\* way to the letter of to at the same place.
RECURSIVE change_case(_, _, _, _, _)
change_case(s, lo, hi, from, to) ==
    IF lo > hi THEN ""
    ELSE IF lo = hi
    THEN (IF find(from, Ch(s, lo)) # 0 THEN Ch(to, find(from, Ch(s, lo))) ELSE Ch(s, lo))
    ELSE change_case(s, lo, (lo + hi) \div 2, from, to)
         \o change_case(s, (lo + hi) \div 2 + 1, hi, from, to)

upper(s) == change_case(s, 1, Len(s), Lowercase, Uppercase)

lower(s) == change_case(s, 1, Len(s), Uppercase, Lowercase)

\* os.path.splitext, for a name without a path separator: the extension
\* starts at the last dot, if a character other than a dot comes before it.
splitext(s) ==
    LET dot == last_index(s, {"."}, TRUE, 1, Len(s))
    IN  IF dot = 0 \/ last_index(s, {"."}, FALSE, 1, dot - 1) = 0 THEN <<s, "">>
        ELSE <<SubSeq(s, 1, dot - 1), SubSeq(s, dot, Len(s))>>

reserved_names ==
    {"CON", "PRN", "AUX", "NUL",
     "COM1", "COM2", "COM3", "COM4", "COM5", "COM6", "COM7", "COM8", "COM9",
     "LPT1", "LPT2", "LPT3", "LPT4", "LPT5", "LPT6", "LPT7", "LPT8", "LPT9"}

\* Lines 470-474.
sanitized_characters(filename) ==
    LET slashes == replace_chars(filename, {"/", "\\"}, "-")
        reserved == replace_chars(slashes, {"<", ">", ":", "\"", "|", "?", "*"}, "")
        control == replace_chars(reserved, {"\n", "\t", "\r", "\f"}, "")
    IN  rstrip_chars(strip(collapse_whitespace(control)), {".", " "})

\* Lines 475-481.
capped(sanitized) ==
    IF Len(sanitized) > MAX_LEN_BYTES
    THEN LET parts == splitext(sanitized)
             cutoff == MAX_LEN_BYTES - Len(parts[2]) - 1
         IN  (IF cutoff >= 0 THEN SubSeq(parts[1], 1, cutoff)
              ELSE SubSeq(parts[1], 1, Len(parts[1]) + cutoff))
             \o "~" \o parts[2]
    ELSE sanitized

\* Lines 468-490.
sanitize_filename(filename) ==
    LET short == capped(sanitized_characters(filename))
        prefixed == IF upper(splitext(short)[1]) \in reserved_names
                    THEN "_" \o short ELSE short
    IN  IF prefixed = "" \/ lower(prefixed) = ".dat" THEN "Filtered_DAT_File.dat"
        ELSE prefixed

(***************************************************************************)
(* Specification of sanitize_filename alone: the candidate is a short name *)
(* over a few characters or one of some longer names.                      *)
(***************************************************************************)
MaxNameLen == 3         \* longest candidate name drawn from NameAlphabet

NameAlphabet == {"a", ".", " ", ":", "/"}

\* s * n
RECURSIVE Repeat(_, _)
Repeat(s, n) ==
    IF n <= 0 THEN ""
    ELSE IF n = 1 THEN s
    ELSE Repeat(s, n \div 2) \o Repeat(s, n - n \div 2)

LongNames ==
    {"Nintendo - Game Boy (GeminiAKNF 1.0.15).dat",
     "Sega: Mega*Drive? " \o Repeat("Genesis ", 30) \o "(GeminiAKNF 1.0.15).dat",
     Repeat("A", MAX_LEN_BYTES) \o ".dat",
     Repeat("A", MAX_LEN_BYTES + 1),
     Repeat("A", MAX_LEN_BYTES - 4) \o ".dat",
     "a." \o Repeat("b", MAX_LEN_BYTES + 50),
     "a." \o Repeat("b", MAX_LEN_BYTES - 1),
     "CON." \o Repeat("x", MAX_LEN_BYTES - 4),
     "CON", "con.txt", "Lpt1.dat", "COM0", ".DAT", "\tname\n.dat", "a\\b<c>d|e\"f",
     "name . ", "..."}

CandidateNames == StringsUpTo(NameAlphabet, MaxNameLen) \cup LongNames

SanitizeInit ==
    /\ unsafe_filename \in CandidateNames
    /\ safe_filename = None
    /\ DetailsIdle
    /\ ParseIdle
    /\ ReconIdle
    /\ HeaderIdle
    /\ ApiIdle
    /\ BatchIdle
    /\ ScanIdle
    /\ ThreadIdle
    /\ LXML_AVAILABLE = TRUE

SanitizeFilename ==
    /\ safe_filename = None
    /\ safe_filename' = sanitize_filename(unsafe_filename)
    /\ UNCHANGED <<unsafe_filename, detailsVars, parseVars, LXML_AVAILABLE, reconVars,
                   headerVars, apiVars, batchVars, scanVars, threadVars>>

SanitizeNext == SanitizeFilename

SpecSanitize == SanitizeInit /\ [][SanitizeNext]_vars

CharsOf(s) == {Ch(s, i) : i \in 1..Len(s)}

\* The name is free of separators, reserved and control characters and does
\* not end with a dot or a space.
SafeCharacters(name) ==
    /\ CharsOf(name) \cap {"/", "\\", "<", ">", ":", "\"", "|", "?", "*"} = {}
    /\ CharsOf(name) \cap {"\n", "\t", "\r", "\f"} = {}
    /\ name # ""
    /\ Ch(name, Len(name)) \notin {".", " "}

\* The name had to be shortened: its cleaned form is over the cap.
Shortened(name) == Len(sanitized_characters(name)) > MAX_LEN_BYTES

\* The truncation marker stands immediately before the extension.
MarkedBeforeExtension(name) ==
    LET name_part == splitext(name)[1]
    IN  name_part # "" /\ Ch(name_part, Len(name_part)) = "~"

\* C11: the sanitised name has no path separator, reserved or control
\* character, does not end with a dot or a space, is at most MAX_LEN_BYTES
\* bytes long and, when it had to be shortened, has "~" immediately before
\* its extension.
C11_SafeAndCapped ==
    safe_filename # None =>
        /\ SafeCharacters(safe_filename)
        /\ Len(safe_filename) <= MAX_LEN_BYTES
        /\ Shortened(unsafe_filename) => MarkedBeforeExtension(safe_filename)

\* C11's failing case: a name whose extension alone is longer than the cap
\* leaves line 478 with a negative cutoff, and the name returned is longer
\* than the cap.
C11_LongExtensionExceedsCap ==
    /\ unsafe_filename = "a." \o Repeat("b", MAX_LEN_BYTES + 50)
    /\ safe_filename = "~." \o Repeat("b", MAX_LEN_BYTES + 50)
    /\ Len(safe_filename) = MAX_LEN_BYTES + 52

\* What does hold of sanitize_filename: the characters are safe for every
\* candidate, and the cap and the marker hold for every candidate whose
\* extension leaves room for them.
SanitizedWithShortExtension ==
    safe_filename # None =>
        /\ SafeCharacters(safe_filename)
        /\ Len(splitext(sanitized_characters(unsafe_filename))[2]) <= MAX_LEN_BYTES - 6 =>
               /\ Len(safe_filename) <= MAX_LEN_BYTES
               /\ Shortened(unsafe_filename) => MarkedBeforeExtension(safe_filename)

(***************************************************************************)
(* process_dat_file                                                        *)
(***************************************************************************)
\* A plausible slip: the output is named after the platform alone.
output_filename_without_maker(console_maker, console_name) ==
    console_name \o " (GeminiAKNF " \o SCRIPT_VERSION \o ").dat"

\* Line 586.
output_filename_base(console_maker, console_name) ==
    console_maker \o " - " \o console_name \o " (GeminiAKNF " \o SCRIPT_VERSION \o ").dat"

\* A plausible slip: a request that fails is sent once more.
stages_with_retry(parse_ok, api_ok, recon_ok) ==
    <<"parse">>
    \o (IF ~ parse_ok THEN <<>>
        ELSE IF ~ api_ok THEN <<"oracle", "oracle">>
        ELSE <<"oracle", "reconstruct">> \o (IF recon_ok THEN <<"write">> ELSE <<>>))

\* The stages one call of process_dat_file runs (lines 538, 570, 578 and
\* 590): each once, the next only if the one before it gave its result
\* (the returns of lines 554, 575 and 583).
stages_run(parse_ok, api_ok, recon_ok) ==
    <<"parse">>
    \o (IF ~ parse_ok THEN <<>>
        ELSE <<"oracle">>
             \o (IF ~ api_ok THEN <<>>
                 ELSE <<"reconstruct">> \o (IF recon_ok THEN <<"write">> ELSE <<>>)))

\* What one call of process_dat_file did: its result, the stages it ran, the
\* lines it logged, what it wrote to the two diagnostic artifacts (None:
\* nothing) and its opening of the output file (NoneObj: none).
FileOutcome(result, stages, console, invalid_dump, failed_dump, write) ==
    [result |-> result, stages |-> stages, console |-> console,
     invalid_dump |-> invalid_dump, failed_dump |-> failed_dump, write |-> write]

\* Lines 590-616: the file is opened for writing, which creates or empties
\* it, and the document is written.  written: "ok", "open_fail" (the file is
\* left as it was) or "write_fail" (the file is left without its content).
write_output(output_path, final_dat_content, written) ==
    IF written = "open_fail" THEN NoneObj
    ELSE [path |-> output_path,
          content |-> IF written = "ok" THEN final_dat_content ELSE <<>>,
          complete |-> written = "ok"]

\* Lines 535-617.  file: [name, stem, doc]; reply: what the oracle does if
\* asked; invalid_ok, dump_ok: whether the diagnostic artifacts can be
\* written; written: how the writing of the output file goes.
\* Lines 496-533 (the count of games shown in the report) and 556-567 (the
\* prompt text sent with the compressed DAT) change none of the state below.
process_dat_file(file, lxml, reply, invalid_ok, dump_ok, written) ==
    LET parse == parse_and_compress_dat(file.doc, file.stem, lxml)
        begun == <<Log("Inizio Elaborazione", file.name)>>
    IN  IF parse.original_games_data = NoneObj \/ parse.compressed_dat_content = NoneObj
        THEN FileOutcome(FALSE, stages_run(FALSE, FALSE, FALSE),
                         begun \o <<Log("Errore critico: Impossibile parsare/comprimere", file.name)>>,
                         None, None, NoneObj)
        ELSE
    LET api == call_gemini_api(reply, invalid_ok)
    IN  IF api.value = NoneObj
        THEN FileOutcome(FALSE, stages_run(TRUE, FALSE, FALSE),
                         begun \o api.console
                         \o <<Log("Elaborazione fallita: Nessuna risposta valida dall'API", file.name)>>,
                         api.dump, None, NoneObj)
        ELSE
    LET recon == reconstruct_filtered_dat(api.value, parse.original_header_xml,
                                          parse.original_games_data, lxml, dump_ok)
    IN  IF recon.final_dat_content = NoneObj
        THEN FileOutcome(FALSE, stages_run(TRUE, TRUE, FALSE),
                         begun \o api.console \o recon.console
                         \o <<Log("Elaborazione fallita: Errore durante la ricostruzione del DAT", file.name)>>,
                         None, recon.failed_ai_response_games, NoneObj)
        ELSE
    LET safe_output_filename ==
            sanitize_filename(output_filename_base(parse.console_maker, parse.console_name))
    IN  FileOutcome(written = "ok", stages_run(TRUE, TRUE, TRUE),
                    begun \o api.console \o recon.console
                    \o <<IF written = "ok"
                         THEN Log("Salvataggio Completato", safe_output_filename)
                         ELSE Log("Errore durante salvataggio", safe_output_filename)>>,
                    None, None,
                    write_output(safe_output_filename, recon.final_dat_content, written))

\* The exception handlers a call runs into, in order.  A caught error is
\* [line, error, logged]: the line of the except clause, what failed, and
\* the messages printed for it before the function goes on or returns.
Caught(line, error, logged) == [line |-> line, error |-> error, logged |-> logged]

\* Lines 500-533: the first count of the games reads the file with
\* ET.iterparse, whose errors are printed.
caught_in_count(doc) ==
    CASE doc.outcome = "ParseError" ->
            <<Caught(530, "input parse", <<"Errore parsing XML iniziale per conteggio">>)>>
      [] doc.outcome = "Exception" ->
            <<Caught(532, "input parse", <<"Errore lettura iniziale per conteggio">>)>>
      [] OTHER -> <<>>

\* Lines 170-238.
caught_in_parse(doc, lxml) ==
    CASE ~ lxml ->
            <<Caught(234, "input parse", <<"Errore inaspettato durante parsing/compressione">>)>>
      [] doc.outcome = "ParseError" ->
            <<Caught(194, "input parse", <<"Errore FATALE: Parsing XML fallito">>)>>
      [] doc.outcome = "Exception" ->
            <<Caught(199, "input parse", <<"Errore FATALE: Errore durante il parsing">>)>>
      [] OTHER -> <<>>

\* Lines 278-322: the error of line 285 is printed at line 291.
caught_in_call(reply, write_ok) ==
    IF reply.kind = "raise"
    THEN <<Caught(285, "oracle call", <<"Fallita: Errore durante la chiamata API Gemini">>)>>
    ELSE IF Truthy(reply.text) /\ ~ starts_with_preamble(normalized_response(reply.text))
            /\ ~ write_ok
    THEN <<Caught(320, "diagnostic-artifact write",
                  <<"Avviso: Impossibile salvare invalid_ai_response_start.xml">>)>>
    ELSE <<>>

\* Lines 337-465.  The handler of line 357 is "pass": it prints nothing.
\* (Lines 392 and 400 catch the ValueError of list.index for an element that
\* find has just returned: they are never entered.)
caught_in_reconstruct(ai_response_xml, original_header_xml, lxml, dump_ok) ==
    IF ai_response_xml.text = "" THEN <<>>
    ELSE IF ~ lxml \/ ai_response_xml.tree.outcome # "ok"
    THEN <<Caught(350, "oracle-output parse",
                  <<"ERRORE FATALE: Impossibile fare il parsing dei giochi dalla risposta XML dell'IA">>)>>
         \o (IF dump_ok THEN <<>>
             ELSE <<Caught(357, "diagnostic-artifact write", <<>>)>>)
    ELSE (IF header_parses(original_header_xml, lxml) THEN <<>>
          ELSE <<Caught(416, "header mutation",
                        <<"Avviso: Errore modificando l'header originale. Uso header originale non modificato.">>)>>)
         \o (IF lxml
             THEN <<Caught(460, "pretty-printing",
                           <<"Avviso: Errore durante pretty-printing finale con lxml">>)>>
             ELSE <<>>)

\* Line 597: the document written is parsed again to count its games.  Its
\* root's tags are built from ai_root.tag (lines 425, 446), which for a root
\* in a namespace is "{namespace}name": tags no parser accepts.
recount_parses(final_dat_content) == ~ Contains(final_dat_content[2], "{")

\* Lines 590-616.  The handler of line 599 counts "<game name=" instead and
\* prints nothing about the error.
caught_in_write(final_dat_content, written) ==
    IF written # "ok" THEN <<Caught(611, "output write", <<"Errore durante salvataggio">>)>>
    ELSE IF ~ recount_parses(final_dat_content) THEN <<Caught(599, "final recount", <<>>)>>
    ELSE <<>>

\* Lines 494-617: the handlers one call of process_dat_file runs into.
caught_in_process(file, lxml, reply, invalid_ok, dump_ok, written) ==
    LET parse == parse_and_compress_dat(file.doc, file.stem, lxml)
        counted == caught_in_count(file.doc)
    IN  IF parse.original_games_data = NoneObj \/ parse.compressed_dat_content = NoneObj
        THEN counted \o caught_in_parse(file.doc, lxml)
        ELSE
    LET api == call_gemini_api(reply, invalid_ok)
    IN  IF api.value = NoneObj
        THEN counted \o caught_in_call(reply, invalid_ok)
        ELSE
    LET recon == reconstruct_filtered_dat(api.value, parse.original_header_xml,
                                          parse.original_games_data, lxml, dump_ok)
        reconstructing == caught_in_reconstruct(api.value, parse.original_header_xml,
                                                lxml, dump_ok)
    IN  IF recon.final_dat_content = NoneObj
        THEN counted \o reconstructing
        ELSE counted \o reconstructing \o caught_in_write(recon.final_dat_content, written)

(***************************************************************************)
(* Specification of the batch (lines 643-702): the candidate files of one  *)
(* directory, in name order, are processed one after the other.            *)
(***************************************************************************)
MaxFiles == 3           \* most candidate files in a batch

GameBoyHeader ==
    HeaderNode(<<[tag |-> "name", text |-> "Nintendo - Game Boy"],
                 [tag |-> "description", text |-> "Nintendo - Game Boy"]>>, "\n\t")

DatFile(name, stem, doc) == [name |-> name, stem |-> stem, doc |-> doc]

\* Two releases of the same platform's catalogue, a catalogue without a
\* header and a file that is no XML.
DirectoryFiles ==
    {DatFile("Nintendo - Game Boy (20240101).dat", "Nintendo - Game Boy (20240101)",
             [outcome |-> "ok", header |-> GameBoyHeader,
              games |-> <<GameNode("B", "rom1", "\n\t"), GameNode("A", "rom1", "\n")>>]),
     DatFile("Nintendo - Game Boy (20240202).dat", "Nintendo - Game Boy (20240202)",
             [outcome |-> "ok", header |-> GameBoyHeader,
              games |-> <<GameNode("A", "rom2", "\n")>>]),
     DatFile("broken.dat", "broken",
             [outcome |-> "ParseError", header |-> NoneObj, games |-> <<>>]),
     DatFile("gb.dat", "gb",
             [outcome |-> "ok", header |-> NoneObj, games |-> <<GameNode("A", "rom1", "\n")>>])}

\* Line 673: the candidates sorted by name.
sorted_by_name(files) ==
    LET names == sorted({f.name : f \in files})
    IN  [k \in 1..Len(names) |-> CHOOSE f \in files : f.name = names[k]]

BatchReplies ==
    {[kind |-> "raise"],
     [kind |-> "response", text |-> None, block_reason |-> "SAFETY", tree |-> NoneObj],
     [kind |-> "response", text |-> "I cannot help.", block_reason |-> None, tree |-> NoneObj],
     [kind |-> "response", text |-> "<datafile><game name=", block_reason |-> None,
      tree |-> [outcome |-> "error"]],
     [kind |-> "response", text |-> Fence \o "xml\n<datafile>\n</datafile>\n" \o Fence,
      block_reason |-> None,
      tree |-> [outcome |-> "ok", root_tag |-> "datafile", names |-> <<"Z", "A">>]],
     [kind |-> "response",
      text |-> "<?xml version='1.0'?><datafile xmlns='urn:dat'><game name='A'/></datafile>",
      block_reason |-> None,
      tree |-> [outcome |-> "ok", root_tag |-> "{urn:dat}datafile", names |-> <<>>]]}

BatchInit ==
    /\ RICH_AVAILABLE \in BOOLEAN
    /\ LXML_AVAILABLE \in BOOLEAN
    /\ \E files \in SUBSET DirectoryFiles :
           /\ Cardinality(files) <= MaxFiles
           /\ files_to_process = sorted_by_name(files)
    /\ main_pc = "start"
    /\ success_count = 0
    /\ fail_count = 0
    /\ processed = <<>>
    /\ output_files = <<>>
    /\ writes = <<>>
    /\ failed_ai_response_games = None
    /\ invalid_ai_response_start = None
    /\ requests = 0
    /\ api_pc = "idle"
    /\ indicator = "idle"
    /\ api_response = NoneObj
    /\ api_return = NoneObj
    /\ api_console = <<>>
    /\ DetailsIdle
    /\ ParseIdle
    /\ ReconIdle
    /\ HeaderIdle
    /\ LaterIdle

notBatch == <<detailsVars, parseVars, LXML_AVAILABLE, reconVars, headerVars, api_pc,
              indicator, api_response, api_return, api_console, sanitizeVars, scanVars,
              threadVars>>

\* Lines 681-682: with candidates, console.rule is called, a method the
\* console of line 51 (the one used without rich) does not have: the
\* AttributeError is caught nowhere.
StartBatch ==
    /\ main_pc = "start"
    /\ main_pc' = IF files_to_process = <<>> THEN "summary"
                  ELSE IF RICH_AVAILABLE THEN "loop"
                  ELSE "crashed"
    /\ UNCHANGED <<RICH_AVAILABLE, files_to_process, success_count, fail_count, processed,
                   output_files, writes, failed_ai_response_games,
                   invalid_ai_response_start, requests, notBatch>>

\* Lines 683-691: one round of the loop.
ProcessDatFile ==
    /\ main_pc = "loop"
    /\ LET dat_file == files_to_process[Len(processed) + 1]
       IN  \E reply \in BatchReplies, invalid_ok \in BOOLEAN, dump_ok \in BOOLEAN,
              written \in {"ok", "open_fail", "write_fail"} :
               \E outcome \in {process_dat_file(dat_file, LXML_AVAILABLE, reply, invalid_ok,
                                                 dump_ok, written)} :
                   /\ processed' = Append(processed, [file |-> dat_file.name,
                                                      result |-> outcome.result,
                                                      stages |-> outcome.stages,
                                                      console |-> outcome.console,
                                                      caught |-> caught_in_process(
                                                          dat_file, LXML_AVAILABLE, reply,
                                                          invalid_ok, dump_ok, written)])
                   /\ success_count' = success_count + (IF outcome.result THEN 1 ELSE 0)
                   /\ fail_count' = fail_count + (IF outcome.result THEN 0 ELSE 1)
                   /\ requests' = requests
                          + Cardinality({i \in 1..Len(outcome.stages) :
                                            outcome.stages[i] = "oracle"})
                   /\ invalid_ai_response_start' =
                          IF outcome.invalid_dump # None THEN outcome.invalid_dump
                          ELSE invalid_ai_response_start
                   /\ failed_ai_response_games' =
                          IF outcome.failed_dump # None THEN outcome.failed_dump
                          ELSE failed_ai_response_games
                   /\ writes' = IF outcome.write = NoneObj THEN writes
                                ELSE Append(writes, [by |-> Len(processed) + 1,
                                                     path |-> outcome.write.path,
                                                     complete |-> outcome.write.complete])
                   /\ output_files' =
                          IF outcome.write = NoneObj THEN output_files
                          ELSE [path \in DOMAIN output_files \cup {outcome.write.path} |->
                                   IF path = outcome.write.path THEN outcome.write.content
                                   ELSE output_files[path]]
    /\ main_pc' = IF Len(processed) + 1 = Len(files_to_process) THEN "summary" ELSE "loop"
    /\ UNCHANGED <<RICH_AVAILABLE, files_to_process, notBatch>>

\* Lines 693-702.
PrintSummary ==
    /\ main_pc = "summary"
    /\ main_pc' = "done"
    /\ UNCHANGED <<RICH_AVAILABLE, files_to_process, success_count, fail_count, processed,
                   output_files, writes, failed_ai_response_games,
                   invalid_ai_response_start, requests, notBatch>>

Next == StartBatch \/ ProcessDatFile \/ PrintSummary

Spec == BatchInit /\ [][Next]_vars

Stopped == main_pc \in {"done", "crashed"}

\* C9: no failure aborts the batch: the candidates are processed once each,
\* in list order, and when the program stops every candidate has been
\* processed and success_count + fail_count is their number.
C9_EveryCandidateProcessedOnce ==
    /\ main_pc # "crashed"
    /\ Len(processed) <= Len(files_to_process)
    /\ \A k \in 1..Len(processed) : processed[k].file = files_to_process[k].name
    /\ success_count + fail_count = Len(processed)
    /\ Stopped => success_count + fail_count = Len(files_to_process)

\* C9's failing case: without rich the program stops at line 682 with two
\* candidates and none of them processed.
C9_AbortsWithoutRich ==
    /\ ~ RICH_AVAILABLE
    /\ main_pc = "crashed"
    /\ Len(files_to_process) = 2
    /\ processed = <<>>
    /\ success_count + fail_count = 0

\* The output path of each candidate of the directory.
ExpectedPath(name) ==
    IF name = "gb.dat" THEN "Produttore Sconosciuto - gb (GeminiAKNF 1.0.15).dat"
    ELSE "Nintendo - Game Boy (GeminiAKNF 1.0.15).dat"

WritesBy(k) == {w \in 1..Len(writes) : writes[w].by = k}

Succeeded == {k \in 1..Len(processed) : processed[k].result}

\* C10 (as amended): each successfully processed input has written one
\* output file, whole, at the path its maker and platform name give; inputs
\* with the same maker and platform name write to the same path, so the
\* output files are as many as the distinct paths of the successful inputs
\* and of the failed writes, never more than success_count plus the failed
\* writes; an input that failed wrote nothing, unless it failed in the write
\* itself, which leaves at most an output file without content.
C10_OneWritePerSuccess ==
    /\ success_count = Cardinality(Succeeded)
    /\ \A k \in 1..Len(processed) :
           /\ Cardinality(WritesBy(k)) <= 1
           /\ processed[k].result =>
                  \E w \in WritesBy(k) :
                      /\ writes[w].complete
                      /\ writes[w].path = ExpectedPath(processed[k].file)
           /\ ~ processed[k].result =>
                  \A w \in WritesBy(k) :
                      /\ ~ writes[w].complete
                      /\ processed[k].stages[Len(processed[k].stages)] = "write"
    /\ DOMAIN output_files = {writes[w].path : w \in 1..Len(writes)}
    /\ Cardinality(DOMAIN output_files) <= Len(writes)
    /\ \A path \in DOMAIN output_files :
           LET last == CHOOSE w \in 1..Len(writes) :
                           /\ writes[w].path = path
                           /\ \A v \in 1..Len(writes) : writes[v].path = path => v <= w
           IN  (output_files[path] # <<>>) <=> writes[last].complete

\* C10 as stated: the output files are as many as the successfully
\* processed inputs, and no input that failed has written one.
C10_OneFilePerSuccess ==
    Stopped =>
        /\ Cardinality(DOMAIN output_files) = success_count
        /\ \A k \in 1..Len(processed) : ~ processed[k].result => WritesBy(k) = {}

\* C10's case: the two releases of the Game Boy catalogue were both
\* processed successfully, and there is one output file.
C10_Witness ==
    /\ main_pc = "done"
    /\ Len(processed) = 2
    /\ success_count = 2
    /\ processed[1].file = "Nintendo - Game Boy (20240101).dat"
    /\ processed[2].file = "Nintendo - Game Boy (20240202).dat"
    /\ DOMAIN output_files = {"Nintendo - Game Boy (GeminiAKNF 1.0.15).dat"}


\* The handlers that print what they caught.
PrintingHandlers == {194, 199, 234, 285, 320, 350, 416, 460, 530, 532, 611}

\* C13: no error is silently swallowed: every error caught while a file is
\* processed has at least one log entry printed for it before processing
\* goes on or the file is abandoned.
C13_EveryCaughtErrorIsLogged ==
    \A k \in 1..Len(processed) :
        \A i \in 1..Len(processed[k].caught) : processed[k].caught[i].logged # <<>>

\* C13's failing case: the oracle's text did not parse and
\* failed_ai_response_games.xml could not be written: the handler of line
\* 357 passes, and the lines printed for the file say nothing of it.
C13_DumpFailureIsSilent ==
    /\ Len(processed) >= 1
    /\ ~ processed[1].result
    /\ processed[1].stages = <<"parse", "oracle", "reconstruct">>
    /\ Len(processed[1].caught) = 2
    /\ processed[1].caught[1].line = 350
    /\ processed[1].caught[2] = Caught(357, "diagnostic-artifact write", <<>>)
    /\ failed_ai_response_games = None
    /\ [k \in 1..Len(processed[1].console) |-> processed[1].console[k].msg]
           = <<"Inizio Elaborazione",
               "Risposta API ricevuta.",
               "Ricostruzione DAT filtrato...",
               "ERRORE FATALE: Impossibile fare il parsing dei giochi dalla risposta XML dell'IA",
               "Elaborazione fallita: Errore durante la ricostruzione del DAT">>

\* The other silent handler: the document written has a root in a namespace,
\* its recount fails at line 597 and line 599 prints nothing; the file
\* counts as a success.
RecountFailureIsSilent ==
    /\ Len(processed) >= 1
    /\ processed[1].result
    /\ processed[1].caught[Len(processed[1].caught)] = Caught(599, "final recount", <<>>)

\* What does hold: the handlers other than those of lines 357 and 599 print
\* what they caught, and the lines of the oracle call, the reconstruction and
\* the write are among those printed for the file.
CaughtErrorsAreLoggedButTwo ==
    \A k \in 1..Len(processed) :
        \A i \in 1..Len(processed[k].caught) :
            LET c == processed[k].caught[i]
            IN  /\ c.line \in PrintingHandlers \cup {357, 599}
                /\ c.line \in PrintingHandlers <=> c.logged # <<>>
                /\ c.line \in {285, 320, 350, 416, 460, 611} =>
                       \A m \in set_of(c.logged) : Logged(processed[k].console, m)

StageOrder == <<"parse", "oracle", "reconstruct", "write">>

Times(stages, stage) == Cardinality({i \in 1..Len(stages) : stages[i] = stage})

\* The parse of the k-th candidate gave a Catalog Store and a compressed
\* document (the test of line 551).
ParseSucceeded(k) ==
    LET parse == parse_and_compress_dat(files_to_process[k].doc, files_to_process[k].stem,
                                        LXML_AVAILABLE)
    IN  parse.original_games_data # NoneObj /\ parse.compressed_dat_content # NoneObj

\* The oracle call of a file gave a usable text; the reconstruction of a
\* file gave a document: by the lines printed.
UsableReply(console) ==
    /\ Logged(console, "Risposta API ricevuta.")
    /\ ~ Logged(console, "ERRORE: La risposta dell'IA non sembra XML valido.")

DocumentReturned(console) == Logged(console, "Ricostruzione completata.")

\* C15: for each file the stages run are a beginning of parse, oracle call,
\* reconstruction, write, each at most once; the oracle is called once for
\* a file whose parse succeeded and never otherwise, with no second call
\* after a failure; the reconstruction runs only on a usable reply and
\* the write only on a reconstructed document.
C15_StagesInOrderEachOnce ==
    /\ \A k \in 1..Len(processed) :
           LET entry == processed[k]
           IN  /\ Len(entry.stages) \in 1..Len(StageOrder)
               /\ entry.stages = SubSeq(StageOrder, 1, Len(entry.stages))
               /\ Times(entry.stages, "oracle") = IF ParseSucceeded(k) THEN 1 ELSE 0
               /\ Times(entry.stages, "reconstruct") = 1 <=> UsableReply(entry.console)
               /\ Times(entry.stages, "write") = 1 <=> DocumentReturned(entry.console)
               /\ entry.result => entry.stages = StageOrder
    /\ requests = Cardinality({k \in 1..Len(processed) : ParseSucceeded(k)})

\* C15's case: of three files the first went through the four stages, the
\* second failed to parse and the third had its request fail: two requests.
C15_Witness ==
    /\ main_pc = "done"
    /\ Len(processed) = 3
    /\ processed[1].result
    /\ processed[1].stages = StageOrder
    /\ processed[2].file = "broken.dat"
    /\ processed[2].stages = <<"parse">>
    /\ processed[3].stages = <<"parse", "oracle">>
    /\ Logged(processed[3].console, "Fallita: Errore durante la chiamata API Gemini")
    /\ requests = 2

(***************************************************************************)
(* Specification of the directory scan (lines 656-673) over runs of the    *)
(* program with --all: each run scans the script's directory, processes    *)
(* its candidates, and every candidate processed successfully leaves its   *)
(* output file in the same directory (line 588).                           *)
(* A file of the directory is [name, header_name, run]: its file name, the *)
(* text of its header's <name> and the run that wrote it (0: it was there  *)
(* before the first run).                                                  *)
(***************************************************************************)
MaxRuns == 2            \* most runs of the program over the directory

LongPlatform == "Nintendo - " \o Repeat("Game Boy ", 20) \o "Advance"

ScanFile(name, header_name, run) == [name |-> name, header_name |-> header_name, run |-> run]

ScanDirectoryFiles ==
    {ScanFile("gb.dat", "Nintendo - Game Boy", 0),
     ScanFile("gbc (20240101).dat", "Nintendo - Game Boy Color (20240101)", 0),
     ScanFile("long.dat", LongPlatform, 0),
     ScanFile("md.dat", "Sega - Mega Drive: Genesis", 0),
     ScanFile("Nintendo - Game Boy (GeminiAKNF 1.0.14).dat", "Nintendo - Game Boy", 0)}

\* Lines 662-666: the test a globbed file must pass to be a candidate.
is_candidate(name) ==
    /\ ~ Contains(name, "(GeminiAKNF")
    /\ \A suffix \in {"_compressed.xml", "_ai_response.xml", "failed_ai_response_games.xml",
                      "invalid_ai_response_start.xml", "failed_ai_response.xml"} :
           ~ endswith(name, suffix)

\* Lines 660-673: the candidates' names, sorted.
scan_directory(files) == sorted({f.name : f \in {g \in files : is_candidate(g.name)}})

\* Lines 184-207 and 586-588: the name of the output file of an input.
\* Path(filepath).stem of a name ending in ".dat" is the name without it.
safe_output_filename_of(file) ==
    LET found == details_with_fallback(extract_console_details(file.header_name),
                                       SubSeq(file.name, 1, Len(file.name) - 4))
    IN  sanitize_filename(output_filename_base(found[1], found[2]))

\* open(output_path, 'w') and write (lines 590-592): the file is created, or
\* replaced if the directory has one of that name; its header keeps the
\* input's <name>.
write_into(files, output) == {f \in files : f.name # output.name} \cup {output}

RECURSIVE write_outputs(_, _, _, _)
write_outputs(files, names, succeeded, run) ==
    IF Len(names) = 0 THEN files
    ELSE LET input == CHOOSE f \in files : f.name = names[1]
             after == IF names[1] \in succeeded
                      THEN write_into(files, ScanFile(safe_output_filename_of(input),
                                                      input.header_name, run))
                      ELSE files
         IN  write_outputs(after, Tail(names), succeeded, run)

ScanInit ==
    /\ directory \in SUBSET ScanDirectoryFiles
    /\ scans = <<>>
    /\ scan_pc = "scan"
    /\ DetailsIdle
    /\ ParseIdle
    /\ ReconIdle
    /\ HeaderIdle
    /\ ApiIdle
    /\ BatchIdle
    /\ SanitizeIdle
    /\ ThreadIdle
    /\ LXML_AVAILABLE = TRUE

notScan == <<detailsVars, parseVars, LXML_AVAILABLE, reconVars, headerVars, apiVars,
             batchVars, sanitizeVars, threadVars>>

\* Lines 656-675 of one run.
ScanDirectory ==
    /\ scan_pc = "scan"
    /\ Len(scans) < MaxRuns
    /\ scans' = Append(scans, scan_directory(directory))
    /\ scan_pc' = "process"
    /\ UNCHANGED <<directory, notScan>>

\* Lines 681-691 of one run: the candidates are processed in order; those
\* in succeeded are the ones process_dat_file returns True for.
ProcessCandidates ==
    /\ scan_pc = "process"
    /\ \E succeeded \in SUBSET set_of(scans[Len(scans)]) :
           \E after \in {write_outputs(directory, scans[Len(scans)], succeeded, Len(scans))} :
               directory' = after
    /\ scan_pc' = "scan"
    /\ UNCHANGED <<scans, notScan>>

ScanNext == ScanDirectory \/ ProcessCandidates

SpecScan == ScanInit /\ [][ScanNext]_vars

\* The files a run wrote.
WrittenBy(run) == {f \in directory : f.run = run}

\* C12: no file written by a run is a candidate of a later scan (a file of
\* that name being still the one the run wrote), and every output file name
\* written carries the provenance marker "(GeminiAKNF".
C12_OutputsAreNeverCandidates ==
    /\ \A f \in directory : f.run > 0 => Contains(f.name, "(GeminiAKNF")
    /\ \A k \in 1..Len(scans) :
           \A f \in directory : (f.run > 0 /\ f.run < k) => f.name \notin set_of(scans[k])

\* C12's failing case: the output of long.dat, cut at the cap, has lost the
\* marker that closed its name, and the second run takes it for a candidate.
C12_TruncatedOutputIsCandidate ==
    /\ Len(scans) = 2
    /\ scans[1] = <<"long.dat">>
    /\ \E f \in directory :
           /\ f.run = 1
           /\ f.name = SubSeq(LongPlatform, 1, MAX_LEN_BYTES - 5) \o "~.dat"
           /\ ~ Contains(f.name, "(GeminiAKNF")
           /\ scans[2] = <<f.name, "long.dat">>

\* What does hold: an output whose name did not have to be shortened carries
\* the marker and is no candidate of any later scan.
UnshortenedOutputsAreNeverCandidates ==
    \A f \in directory :
        (f.run > 0 /\ Len(f.name) < MAX_LEN_BYTES) =>
            /\ Contains(f.name, "(GeminiAKNF")
            /\ \A k \in 1..Len(scans) : f.run < k => f.name \notin set_of(scans[k])


(***************************************************************************)
(* Specification of the ProcessingIndicator during one call_gemini_api     *)
(* (lines 241-288): the calling thread and the thread that runs _animate,  *)
(* one step per statement that reads or writes what the two share: the     *)
(* stop event, the lock and sys.stdout.                                    *)
(*   caller:   start, spawn, request, stop, stop_acquire, stop_locked,     *)
(*             stop_set, join, evaluate, returned                          *)
(*   animator: idle (no thread yet), loop, acquire, check, write, release, *)
(*             sleep, clear, done                                          *)
(***************************************************************************)
MaxFrames == 3          \* spinner frames kept in stdout; later ones scroll away

\* Line 246: the frames of the spinner, in the order of the cycle.
Spinner == <<"|", "/", "-", "\\">>

\* A plausible slip: stop() does not wait for the thread.
join_skipped(animator_pc) == TRUE

\* Thread.join() of line 270 returns once the thread has ended.
join_returns(animator_pc) == animator_pc = "done"

\* Thread.is_alive()
is_alive(animator_pc) == animator_pc \notin {"idle", "done"}

Frames(out) == {k \in 1..Len(out) : out[k] \in set_of(Spinner)}

\* next(self._spinner), for a spinner that has given the frames of out.
next_frame(out) == Spinner[(Cardinality(Frames(out)) % Len(Spinner)) + 1]

\* sys.stdout.write
stdout_write(out, text) ==
    IF text \in set_of(Spinner) /\ Cardinality(Frames(out)) >= MaxFrames THEN out
    ELSE Append(out, text)

ThreadInit ==
    /\ caller = "start"
    /\ animator = "idle"
    /\ stop_event = FALSE
    /\ lock = None
    /\ stdout = <<>>
    /\ call_outcome = None
    /\ DetailsIdle
    /\ ParseIdle
    /\ ReconIdle
    /\ HeaderIdle
    /\ ApiIdle
    /\ BatchIdle
    /\ SanitizeIdle
    /\ ScanIdle
    /\ LXML_AVAILABLE = TRUE

notThread == <<detailsVars, parseVars, LXML_AVAILABLE, reconVars, headerVars, apiVars,
               batchVars, sanitizeVars, scanVars>>

\* Lines 260-261.
StartWrite ==
    /\ caller = "start"
    /\ stdout' = stdout_write(stdout, "message...")
    /\ caller' = "spawn"
    /\ UNCHANGED <<animator, stop_event, lock, call_outcome, notThread>>

\* Lines 262-264: the event is cleared and the thread started.
StartThread ==
    /\ caller = "spawn"
    /\ stop_event' = FALSE
    /\ animator' = "loop"
    /\ caller' = "request"
    /\ UNCHANGED <<lock, stdout, call_outcome, notThread>>

\* Lines 278-286: the request returns a response or raises.
Request ==
    /\ caller = "request"
    /\ call_outcome' \in {"response", "raise"}
    /\ caller' = "stop"
    /\ UNCHANGED <<animator, stop_event, lock, stdout, notThread>>

\* Lines 288 and 267: stop() looks whether the thread is alive.
StopCheck ==
    /\ caller = "stop"
    /\ caller' = IF is_alive(animator) THEN "stop_acquire" ELSE "evaluate"
    /\ UNCHANGED <<animator, stop_event, lock, stdout, call_outcome, notThread>>

\* Line 268.
StopAcquire ==
    /\ caller = "stop_acquire"
    /\ lock = None
    /\ lock' = "caller"
    /\ caller' = "stop_locked"
    /\ UNCHANGED <<animator, stop_event, stdout, call_outcome, notThread>>

\* Line 269.
StopSet ==
    /\ caller = "stop_locked"
    /\ stop_event' = TRUE
    /\ caller' = "stop_set"
    /\ UNCHANGED <<animator, lock, stdout, call_outcome, notThread>>

\* The end of the with block of line 268.
StopRelease ==
    /\ caller = "stop_set"
    /\ lock' = None
    /\ caller' = "join"
    /\ UNCHANGED <<animator, stop_event, stdout, call_outcome, notThread>>

\* Line 270.
Join ==
    /\ caller = "join"
    /\ join_returns(animator)
    /\ caller' = "evaluate"
    /\ UNCHANGED <<animator, stop_event, lock, stdout, call_outcome, notThread>>

\* Lines 290-324: the value is worked out and returned.
Return ==
    /\ caller = "evaluate"
    /\ caller' = "returned"
    /\ UNCHANGED <<animator, stop_event, lock, stdout, call_outcome, notThread>>

\* Line 250.
AnimateLoop ==
    /\ animator = "loop"
    /\ animator' = IF stop_event THEN "clear" ELSE "acquire"
    /\ UNCHANGED <<caller, stop_event, lock, stdout, call_outcome, notThread>>

\* Line 251.
AnimateAcquire ==
    /\ animator = "acquire"
    /\ lock = None
    /\ lock' = "animator"
    /\ animator' = "check"
    /\ UNCHANGED <<caller, stop_event, stdout, call_outcome, notThread>>

\* Line 252.
AnimateCheck ==
    /\ animator = "check"
    /\ animator' = IF ~ stop_event THEN "write" ELSE "release"
    /\ UNCHANGED <<caller, stop_event, lock, stdout, call_outcome, notThread>>

\* Lines 253-254.
AnimateWrite ==
    /\ animator = "write"
    /\ stdout' = stdout_write(stdout, next_frame(stdout))
    /\ animator' = "release"
    /\ UNCHANGED <<caller, stop_event, lock, call_outcome, notThread>>

\* The end of the with block of line 251.
AnimateRelease ==
    /\ animator = "release"
    /\ lock' = None
    /\ animator' = "sleep"
    /\ UNCHANGED <<caller, stop_event, stdout, call_outcome, notThread>>

\* Line 255.
AnimateSleep ==
    /\ animator = "sleep"
    /\ animator' = "loop"
    /\ UNCHANGED <<caller, stop_event, lock, stdout, call_outcome, notThread>>

\* Lines 256-257: the line of the spinner is blanked and the thread ends.
AnimateClear ==
    /\ animator = "clear"
    /\ stdout' = stdout_write(stdout, "clear")
    /\ animator' = "done"
    /\ UNCHANGED <<caller, stop_event, lock, call_outcome, notThread>>

CallerNext ==
    \/ StartWrite \/ StartThread \/ Request \/ StopCheck \/ StopAcquire
    \/ StopSet \/ StopRelease \/ Join \/ Return

AnimatorNext ==
    \/ AnimateLoop \/ AnimateAcquire \/ AnimateCheck \/ AnimateWrite
    \/ AnimateRelease \/ AnimateSleep \/ AnimateClear

ThreadNext == CallerNext \/ AnimatorNext

\* Both threads keep running; the request ends (it has a timeout, line 284);
\* the animation sleeps between two holds of the lock (line 255), so a
\* caller waiting for the lock gets it.
SpecIndicator ==
    /\ ThreadInit
    /\ [][ThreadNext]_vars
    /\ WF_vars(CallerNext)
    /\ WF_vars(AnimatorNext)
    /\ SF_vars(StopAcquire)

\* The thread has ended on a stop request, with the lock free.
IndicatorTerminated == animator = "done" /\ stop_event /\ lock = None

\* No frame is written once the stop flag is set: a frame is written only
\* with the lock held and the flag clear, and nothing but the blanking of
\* the line follows the setting of the flag.
NoFrameAfterStop ==
    /\ animator = "write" => (~ stop_event /\ lock = "animator")
    /\ caller \in {"stop_locked", "stop_set"} => lock = "caller"
    /\ \A k \in 1..Len(stdout) : stdout[k] = "clear" => k = Len(stdout)

\* C14: for every interleaving, and whether the request returns or raises,
\* the indicator thread has ended (stop requested, thread joined) before
\* call_gemini_api returns; stop() does not deadlock (the call always
\* returns); and no spinner frame is written after the stop flag is set.
C14_IndicatorJoinedBeforeReturn ==
    /\ [](caller \in {"evaluate", "returned"} => IndicatorTerminated)
    /\ []NoFrameAfterStop
    /\ [](caller # "returned" => ENABLED ThreadNext)
    /\ <>(caller = "returned")

\* C14's case: the request raised after the animation had written two
\* frames, and the call has returned with the thread ended.
C14_Witness ==
    /\ caller = "returned"
    /\ call_outcome = "raise"
    /\ IndicatorTerminated
    /\ stdout = <<"message...", "|", "/", "clear">>


(***************************************************************************)
(* Entries of the same name, from the parse to the Output Document.        *)
(***************************************************************************)
\* The places of the input's games of a name.
GamesNamed(doc, name) == {i \in 1..Len(doc.games) : doc.games[i].elem.name = name}

Last(indices) == CHOOSE i \in indices : \A j \in indices : i >= j

\* The names of the input's games that have one.
NamesOf(doc) == {doc.games[i].elem.name : i \in {j \in 1..Len(doc.games) :
                                                     Truthy(doc.games[j].elem.name)}}

\* The Output Document for an oracle that selects the one name.
SelectingOnly(name) ==
    reconstruct_filtered_dat(
        [text |-> "<datafile>",
         tree |-> [outcome |-> "ok", root_tag |-> "datafile", names |-> <<name>>]],
        parsed.original_header_xml, parsed.original_games_data, LXML_AVAILABLE, TRUE)

\* C18: the Catalog Store holds one fragment per name, that of the last
\* entry of the name in the input's order; entries of a name already seen
\* raise no error (the parse succeeds as for any document); and selecting the
\* name emits the last entry's fragment only.
C18_LastEntryOfANameIsStored ==
    parsed # NoneObj =>
        /\ (parsed.original_games_data # NoneObj) <=> (LXML_AVAILABLE /\ input_doc.outcome = "ok")
        /\ parsed.original_games_data # NoneObj =>
               /\ DOMAIN parsed.original_games_data = NamesOf(input_doc)
               /\ \A name \in NamesOf(input_doc) :
                      LET last == input_doc.games[Last(GamesNamed(input_doc, name))]
                      IN  /\ parsed.original_games_data[name] = tostring(last)
                          /\ Entries(SelectingOnly(name).final_dat_content)
                                 = <<strip_xml(tostring(last))>>

\* C18's case: the input has A, B and A again with other content; the store
\* holds the second A, and selecting A emits it alone.
C18_Witness ==
    /\ parsed # NoneObj
    /\ Len(input_doc.games) = 3
    /\ input_doc.games[1] = GameNode("A", "rom1", "\n\t")
    /\ input_doc.games[2].elem.name = "B"
    /\ input_doc.games[3] = GameNode("A", "rom2", "\n")
    /\ parsed.original_games_data # NoneObj
    /\ DOMAIN parsed.original_games_data = {"A", "B"}
    /\ parsed.original_games_data["A"].elem.body = "rom2"
    /\ Len(Entries(SelectingOnly("A").final_dat_content)) = 1
    /\ Entries(SelectingOnly("A").final_dat_content)[1].elem.body = "rom2"

=============================================================================
